---------------------------- MODULE Spec2Model ----------------------------
(***************************************************************************)
(* Verification model of rynorris/chess: the bitboard position and its     *)
(* incremental Zobrist hash (chess-lib/src/game.rs, zobrist.rs), the legal *)
(* move generator (chess-lib/src/moves.rs), the transposition table        *)
(* (chess-lib/src/tt.rs) and the alpha-beta search (chess-ai/src/          *)
(* minimax.rs).                                                            *)
(*                                                                         *)
(* A 64-bit word (BitBoard, BitCoord, ZobristHash) is the set of the       *)
(* positions of its set bits, a subset of 0..63: | is \cup, & is \cap,     *)
(* ^ is the symmetric difference, and a BitCoord is the number n of its    *)
(* single set bit.  Option<T> is a sequence: None is << >>, Some(x) <<x>>. *)
(***************************************************************************)
EXTENDS Integers, Sequences, FiniteSets, TLC

VARIABLES
    tt,        \* the TranspositionTable under test (tt.rs:3-8)
    lastOp,    \* the last call made on tt and what it returned
    inserted,  \* per key, the payloads handed to the table so far
    ttOps,     \* number of calls made on tt
    game,      \* the GameState being played (types.rs:3-10)
    plies,     \* number of moves made on game
    lastMove,  \* the last Move handed to make_move
    search,    \* what AlphaBeta::evaluate returned, once it has been called
    oracle,    \* a Magic of MagicBitBoards and the last lookup made in it
    mcts       \* the search tree of an MCTS (montecarlo.rs)

vars == <<tt, lastOp, inserted, ttOps, game, plies, lastMove, search, oracle,
          mcts>>

None == << >>
Some(x) == <<x>>

(***************************************************************************)
(* Bounds.                                                                 *)
(***************************************************************************)
MaxTTOps == 3
MaxTTDepth == 2
MaxPlies == 2
MaxSearchPlies == 1
MaxDepth == 4
MaxSimulations == 3

(***************************************************************************)
(* 64-bit words.                                                           *)
(***************************************************************************)
Xor(a, b) == (a \ b) \cup (b \ a)

RECURSIVE Pow2(_)
Pow2(n) == IF n = 0 THEN 1 ELSE 2 * Pow2(n - 1)

RECURSIVE WordValue(_)
\* the number a set of bit positions stands for
WordValue(w) ==
    IF w = {} THEN 0
    ELSE LET i == CHOOSE x \in w : TRUE IN Pow2(i) + WordValue(w \ {i})

\* w >> s for a 64-bit w, as a number
ShiftRight(w, s) == WordValue({i - s : i \in {j \in w : j >= s}})

(***************************************************************************)
(* Transposition table (chess-lib/src/tt.rs).                              *)
(***************************************************************************)
EntrySize == 16

RECURSIVE NextPowerOfTwoFrom(_, _)
NextPowerOfTwoFrom(p, n) == IF p >= n THEN p ELSE NextPowerOfTwoFrom(2 * p, n)
next_power_of_two(n) == NextPowerOfTwoFrom(1, n)

RECURSIVE TrailingZerosFrom(_, _)
TrailingZerosFrom(n, acc) ==
    IF n % 2 = 1 THEN acc ELSE TrailingZerosFrom(n \div 2, acc + 1)
trailing_zeros(n) == IF n = 0 THEN 64 ELSE TrailingZerosFrom(n, 0)

always_replace(prev, new) == "Replace"

\* a never_replace that lets the newcomer in
never_replace_Replaces(prev, new) == "Replace"
never_replace(prev, new) == "Keep"
prefer_higher(prev, new) == IF prev.depth < new.depth THEN "Replace" ELSE "Keep"

CollisionPolicy(t, prev, new) ==
    CASE t.collision_policy = "always_replace" -> always_replace(prev, new)
      [] t.collision_policy = "never_replace" -> never_replace(prev, new)
      [] t.collision_policy = "prefer_higher" -> prefer_higher(prev, new)

TTNode(zh, data) == [zh |-> zh, data |-> data]

TranspositionTableNew(max_bytes, collision_policy) ==
    LET num_entries == next_power_of_two(max_bytes \div EntrySize) \div 2
    IN [shift |-> 64 - trailing_zeros(num_entries),
        table |-> [ix \in 0 .. num_entries - 1 |-> None],
        collision_policy |-> collision_policy,
        stats |-> [hits |-> 0, collisions |-> 0, total |-> 0,
                   size |-> num_entries, filled |-> 0]]

TTIndex(t, zh) == ShiftRight(zh, t.shift)

\* a get that does not compare the stored key with the probe key
TTGetResult_NoKeyCheck(t, zh) ==
    LET slot == t.table[TTIndex(t, zh)]
    IN IF slot /= None THEN Some(slot[1].data) ELSE None

\* get: the returned Option and the table afterwards
TTGetResult(t, zh) ==
    LET slot == t.table[TTIndex(t, zh)]
    IN IF slot /= None /\ slot[1].zh = zh THEN Some(slot[1].data) ELSE None

TTGet(t, zh) ==
    LET slot == t.table[TTIndex(t, zh)]
        hit == slot /= None /\ slot[1].zh = zh
        miss == slot /= None /\ slot[1].zh /= zh
    IN [t EXCEPT !.stats.total = @ + 1,
                 !.stats.hits = IF hit THEN @ + 1 ELSE @,
                 !.stats.collisions = IF miss THEN @ + 1 ELSE @]

TTInsert(t, zh, data) ==
    LET ix == TTIndex(t, zh)
        slot == t.table[ix]
    IN IF slot /= None
       THEN IF slot[1].zh = zh
            THEN t
            ELSE IF CollisionPolicy(t, slot[1].data, data) = "Keep"
                 THEN t
                 ELSE [t EXCEPT !.table[ix] = Some(TTNode(zh, data))]
       ELSE [t EXCEPT !.stats.filled = @ + 1,
                      !.table[ix] = Some(TTNode(zh, data))]

\* get_or_compute: the value returned, given what compute() would return
TTGetOrComputeResult(t, zh, computed) ==
    LET slot == t.table[TTIndex(t, zh)]
    IN IF slot /= None /\ slot[1].zh = zh THEN slot[1].data ELSE computed

\* the number of times get_or_compute calls compute()
TTGetOrComputeCalls(t, zh) ==
    LET slot == t.table[TTIndex(t, zh)]
    IN IF slot /= None /\ slot[1].zh = zh THEN 0 ELSE 1

\* a get_or_compute that stores what it computed whatever the policy says
TTGetOrCompute_IgnoresPolicy(t, zh, computed) ==
    LET ix == TTIndex(t, zh)
        slot == t.table[ix]
    IN IF slot /= None
       THEN IF slot[1].zh = zh
            THEN [t EXCEPT !.stats.total = @ + 1, !.stats.hits = @ + 1]
            ELSE [t EXCEPT !.stats.total = @ + 1,
                           !.stats.collisions = @ + 1,
                           !.table[ix] = Some(TTNode(zh, computed))]
       ELSE [t EXCEPT !.stats.total = @ + 1,
                      !.stats.filled = @ + 1,
                      !.table[ix] = Some(TTNode(zh, computed))]

TTGetOrCompute(t, zh, computed) ==
    LET ix == TTIndex(t, zh)
        slot == t.table[ix]
    IN IF slot /= None
       THEN IF slot[1].zh = zh
            THEN [t EXCEPT !.stats.total = @ + 1, !.stats.hits = @ + 1]
            ELSE IF CollisionPolicy(t, slot[1].data, computed) = "Keep"
                 THEN [t EXCEPT !.stats.total = @ + 1,
                                !.stats.collisions = @ + 1]
                 ELSE [t EXCEPT !.stats.total = @ + 1,
                                !.stats.collisions = @ + 1,
                                !.table[ix] = Some(TTNode(zh, computed))]
       ELSE [t EXCEPT !.stats.total = @ + 1,
                      !.stats.filled = @ + 1,
                      !.table[ix] = Some(TTNode(zh, computed))]

(***************************************************************************)
(* The table driven by an arbitrary caller.                                *)
(***************************************************************************)
\* probe keys: 0x0 and 0x1 share a bucket of every table,
\* 0x8000000000000000 lies in another
TTKeys == {{}, {0}, {63}}
\* 48 / 16 = 3 entries asked for: a table of two buckets
TTBudgets == {48}
Policies == {"always_replace", "never_replace", "prefer_higher"}
TTPayloads == [depth : 1 .. MaxTTDepth, score : {0, 1}, best_move : {None}]

NoOp == [op |-> "none", zh |-> {}, data |-> None, result |-> None]

InitTT ==
    /\ \E b \in TTBudgets, p \in Policies : tt = TranspositionTableNew(b, p)
    /\ lastOp = NoOp
    /\ inserted = [k \in TTKeys |-> {}]
    /\ ttOps = 0
    /\ game = None
    /\ plies = 0
    /\ lastMove = None
    /\ search = None
    /\ oracle = None
    /\ mcts = None

Get(zh) ==
    /\ ttOps < MaxTTOps
    /\ tt' = TTGet(tt, zh)
    /\ lastOp' = [op |-> "get", zh |-> zh, data |-> None,
                  result |-> TTGetResult(tt, zh)]
    /\ ttOps' = ttOps + 1
    /\ UNCHANGED <<inserted, game, plies, lastMove, search, oracle, mcts>>

Insert(zh, data) ==
    /\ ttOps < MaxTTOps
    /\ tt' = TTInsert(tt, zh, data)
    /\ lastOp' = [op |-> "insert", zh |-> zh, data |-> Some(data),
                  result |-> None]
    /\ inserted' = [inserted EXCEPT ![zh] = @ \cup {data}]
    /\ ttOps' = ttOps + 1
    /\ UNCHANGED <<game, plies, lastMove, search, oracle, mcts>>

GetOrCompute(zh, computed) ==
    /\ ttOps < MaxTTOps
    /\ tt' = TTGetOrCompute(tt, zh, computed)
    /\ lastOp' = [op |-> "get_or_compute", zh |-> zh, data |-> Some(computed),
                  result |-> Some(TTGetOrComputeResult(tt, zh, computed)),
                  calls |-> TTGetOrComputeCalls(tt, zh)]
    /\ inserted' = [inserted EXCEPT ![zh] =
                      IF TTGetResult(tt, zh) = None THEN @ \cup {computed} ELSE @]
    /\ ttOps' = ttOps + 1
    /\ UNCHANGED <<game, plies, lastMove, search, oracle, mcts>>

NextTT ==
    \/ \E zh \in TTKeys : Get(zh)
    \/ \E zh \in TTKeys, data \in TTPayloads : Insert(zh, data)
    \/ \E zh \in TTKeys, data \in TTPayloads : GetOrCompute(zh, data)

SpecTT == InitTT /\ [][NextTT]_vars

(***************************************************************************)
(* Claims about the transposition table.                                   *)
(***************************************************************************)
TTStep == ttOps' = ttOps + 1
BucketOf(zh) == tt.table[ShiftRight(zh, tt.shift)]

\* C2: get(key) returns Some(payload) iff the bucket indexed by key is
\* occupied and holds that very key, None for an empty bucket or another
\* key, and get leaves every bucket as it was.
C2_GetHitsOnlyOnStoredKey ==
    [][(TTStep /\ lastOp'.op = "get") =>
         LET zh == lastOp'.zh
             slot == BucketOf(zh)
         IN /\ lastOp'.result =
                  IF slot /= None /\ slot[1].zh = zh
                  THEN Some(slot[1].data) ELSE None
            /\ tt'.table = tt.table]_vars

\* a get that missed although its bucket holds an entry (of another key)
C2_Witness ==
    /\ lastOp.op = "get"
    /\ lastOp.result = None
    /\ BucketOf(lastOp.zh) /= None
    /\ BucketOf(lastOp.zh)[1].zh /= lastOp.zh

\* C3: insert(key, payload) stores into an empty bucket, overwrites the
\* payload when the bucket holds the same key, and for another key keeps the
\* bucket on Keep and overwrites it on Replace.
C3_InsertOverwritesSameKey ==
    [][(TTStep /\ lastOp'.op = "insert") =>
         LET zh == lastOp'.zh
             data == lastOp'.data[1]
             ix == ShiftRight(zh, tt.shift)
             slot == tt.table[ix]
             stored == [tt.table EXCEPT ![ix] = Some(TTNode(zh, data))]
         IN tt'.table =
              IF slot = None THEN stored
              ELSE IF slot[1].zh = zh THEN stored
              ELSE IF CollisionPolicy(tt, slot[1].data, data) = "Keep"
                   THEN tt.table ELSE stored]_vars

\* C4: with always_replace, insert(k, v) immediately followed by get(k)
\* returns Some(v).
C4_AlwaysReplaceReturnsLatest ==
    (tt.collision_policy = "always_replace" /\ lastOp.op = "insert")
        => TTGetResult(tt, lastOp.zh) = lastOp.data

\* C5: with never_replace, an occupied bucket is never changed by a later
\* call, whether it comes with the same key or with a colliding one.
C5_NeverReplaceKeepsFirst ==
    [][tt.collision_policy = "never_replace" =>
         \A ix \in DOMAIN tt.table :
            tt.table[ix] /= None => tt'.table[ix] = tt.table[ix]]_vars

\* an insert under never_replace that met a bucket held by another key
C5_Witness ==
    /\ tt.collision_policy = "never_replace"
    /\ lastOp.op = "insert"
    /\ BucketOf(lastOp.zh) /= None
    /\ BucketOf(lastOp.zh)[1].zh /= lastOp.zh

\* C6: with prefer_higher, a get(k) that hits returns a payload whose depth
\* is the greatest among all payloads ever inserted under k.
C6_PreferHigherYieldsDeepest ==
    tt.collision_policy = "prefer_higher" =>
        \A k \in TTKeys :
            TTGetResult(tt, k) /= None =>
                \A p \in inserted[k] : p.depth <= TTGetResult(tt, k)[1].depth

\* C23: get_or_compute(key, compute) on a bucket holding key returns the
\* stored payload without calling compute; on an empty bucket it calls
\* compute once, stores and returns the result; on a bucket holding another
\* key it calls compute once, returns the result and stores it only on
\* Replace, so that the other key is still found under never_replace and no
\* longer found under always_replace.
C23_GetOrCompute ==
    [][(TTStep /\ lastOp'.op = "get_or_compute") =>
         LET zh == lastOp'.zh
             computed == lastOp'.data[1]
             ix == ShiftRight(zh, tt.shift)
             slot == tt.table[ix]
             stored == [tt.table EXCEPT ![ix] = Some(TTNode(zh, computed))]
         IN IF slot /= None /\ slot[1].zh = zh
            THEN /\ lastOp'.calls = 0
                 /\ lastOp'.result = Some(slot[1].data)
                 /\ tt'.table = tt.table
            ELSE IF slot = None
            THEN /\ lastOp'.calls = 1
                 /\ lastOp'.result = Some(computed)
                 /\ tt'.table = stored
            ELSE /\ lastOp'.calls = 1
                 /\ lastOp'.result = Some(computed)
                 /\ tt'.table =
                      IF CollisionPolicy(tt, slot[1].data, computed) = "Replace"
                      THEN stored ELSE tt.table
                 /\ tt.collision_policy = "never_replace" =>
                      TTGetResult(tt', slot[1].zh) = Some(slot[1].data)
                 /\ tt.collision_policy = "always_replace" =>
                      TTGetResult(tt', slot[1].zh) = None]_vars

\* a get_or_compute under never_replace that computed a value for a key
\* whose bucket is held, before and after the call, by another key
C23_Witness ==
    /\ tt.collision_policy = "never_replace"
    /\ lastOp.op = "get_or_compute"
    /\ lastOp.calls = 1
    /\ BucketOf(lastOp.zh) /= None
    /\ BucketOf(lastOp.zh)[1].zh /= lastOp.zh
    /\ tt.stats.collisions >= 1

(***************************************************************************)
(* Types (chess-lib/src/types.rs).  A square is the index n of the set bit *)
(* of its BitCoord: rank = n \div 8 and file = 7 - n % 8, so that a1 is    *)
(* bit 7, e1 bit 3 and h1 bit 0, as the constants of game.rs have it.      *)
(***************************************************************************)
other(colour) == IF colour = "White" THEN "Black" ELSE "White"

PieceKinds == {"King", "Queen", "Rook", "Bishop", "Knight", "Pawn"}

\* Pieces::empty; the six bitboards are the fields of a record
EmptyPieces ==
    [King |-> {}, Queen |-> {}, Rook |-> {}, Bishop |-> {}, Knight |-> {},
     Pawn |-> {}]

all(pieces) ==
    pieces.King \cup pieces.Queen \cup pieces.Rook \cup pieces.Bishop
        \cup pieces.Knight \cup pieces.Pawn

put_piece(pieces, piece, coord) == [pieces EXCEPT ![piece] = @ \cup {coord}]

remove_piece(pieces, piece, coord) == [pieces EXCEPT ![piece] = @ \ {coord}]

get_piece(pieces, coord) ==
    IF coord \in pieces.King THEN Some("King")
    ELSE IF coord \in pieces.Queen THEN Some("Queen")
    ELSE IF coord \in pieces.Rook THEN Some("Rook")
    ELSE IF coord \in pieces.Bishop THEN Some("Bishop")
    ELSE IF coord \in pieces.Knight THEN Some("Knight")
    ELSE IF coord \in pieces.Pawn THEN Some("Pawn")
    ELSE None

\* the file 0..7 (a..h) of a BitCoord
BitCoordFile(coord) == (63 - coord) % 8

\* Move::Normal(piece, src, tgt), Move::Promotion(src, tgt, pc), Move::Castle,
\* Move::LongCastle
Normal(piece, src, tgt) ==
    [kind |-> "Normal", piece |-> piece, src |-> src, tgt |-> tgt]
Promotion(src, tgt, pc) ==
    [kind |-> "Promotion", piece |-> pc, src |-> src, tgt |-> tgt]
Castle == [kind |-> "Castle", piece |-> "King", src |-> 0, tgt |-> 0]
LongCastle == [kind |-> "LongCastle", piece |-> "King", src |-> 0, tgt |-> 0]

(***************************************************************************)
(* Zobrist hashing (chess-lib/src/zobrist.rs).                             *)
(***************************************************************************)
BLACK_TO_MOVE == 12 * 64
WHITE_QUEENSIDE == 12 * 64 + 1
WHITE_KINGSIDE == 12 * 64 + 1
BLACK_QUEENSIDE == 12 * 64 + 2
BLACK_KINGSIDE == 12 * 64 + 3
EN_PASSANT == 12 * 64 + 4

\* The 781 numbers ChaCha8Rng::seed_from_u64(DEFAULT_SEED = 26355) yields,
\* each as four 16-bit limbs, most significant first.
ZobristNumbers == <<
    <<\hb680, \hf51f, \hdddb, \h2e27>>,  \* 0
    <<\h2d75, \h44c5, \h624c, \h06d6>>,
    <<\h96cb, \ha7ce, \h8afd, \h0924>>,
    <<\hbb90, \h0870, \h7097, \h995c>>,
    <<\h5dcf, \h3212, \h9434, \h9c3c>>,
    <<\hbc00, \hec45, \h43fd, \had7d>>,
    <<\h0935, \h9523, \hb600, \h3058>>,
    <<\hfd64, \h9926, \hcf54, \h7407>>,
    <<\h5c81, \h365d, \h4c22, \h56b3>>,
    <<\hed42, \h37d8, \he3a6, \heb92>>,
    <<\h6d63, \he4ff, \h6544, \hee91>>,
    <<\hd285, \hd42d, \hb535, \h57cd>>,
    <<\hc1d8, \h9f43, \hb290, \hc652>>,
    <<\h4337, \h67df, \hc48f, \h3d89>>,
    <<\hc53d, \hae68, \h46f8, \h92e1>>,
    <<\h135e, \h769b, \h0d0c, \h322f>>,
    <<\h9c10, \hbea7, \h6af6, \hac54>>,
    <<\ha508, \h3b03, \h8c3f, \h91fe>>,
    <<\hcaff, \hcf7e, \h3afe, \he2d5>>,
    <<\h7260, \hf7fb, \h2249, \h92a9>>,
    <<\h914e, \h9628, \h421e, \hc01a>>,
    <<\h1241, \h1827, \hc2ec, \hb531>>,
    <<\he90c, \hb496, \h366c, \hdd28>>,
    <<\hafa4, \h8ba1, \h3013, \hcccb>>,
    <<\h9736, \h4f63, \ha6c7, \h4b85>>,
    <<\h471a, \h9d60, \h8076, \h6746>>,
    <<\hfac4, \h69c1, \hb6a8, \heea4>>,
    <<\h57a7, \h343a, \h8bb5, \h266a>>,
    <<\hea75, \h6cc2, \he62f, \hf5d4>>,
    <<\hd0e1, \h2048, \h23d7, \h1244>>,
    <<\he9df, \ha24f, \hdb7c, \hc8eb>>,
    <<\h5f16, \hfdf2, \hafa4, \h5678>>,
    <<\h3ce6, \h5a09, \ha59d, \h73b7>>,
    <<\h5a56, \h1494, \h09ef, \h9134>>,
    <<\h9fad, \hcc43, \hf112, \hb462>>,
    <<\h85a2, \hf3a7, \h3a0a, \h15a1>>,
    <<\hfa7d, \ha0dd, \h8084, \he431>>,
    <<\hb8bb, \ha0d0, \h8396, \he404>>,
    <<\hffa4, \h9343, \h5845, \had58>>,
    <<\h6d12, \h0376, \hd2f1, \h3db0>>,
    <<\he8b0, \hc36a, \hbc9a, \habea>>,
    <<\ha136, \hc45e, \hc964, \ha7d6>>,
    <<\hb280, \h0621, \h8633, \hc86d>>,
    <<\hee88, \hb3f4, \h16a1, \h00ba>>,
    <<\h747c, \ha399, \h3f22, \h8501>>,
    <<\h20c7, \hff6e, \ha346, \h88ec>>,
    <<\h719f, \h464b, \h7273, \h3cf4>>,
    <<\h311f, \h9645, \h6e2f, \h4b69>>,
    <<\h9f93, \hca9b, \h88a3, \h5bc7>>,
    <<\hee24, \h84f9, \h2fff, \h2639>>,
    <<\h4122, \hc668, \h24f2, \h9e8b>>,
    <<\hb2ac, \h61df, \h427d, \hb212>>,
    <<\h40f6, \h5583, \ha4ed, \h4da5>>,
    <<\h3765, \h5ff8, \h12b0, \h9562>>,
    <<\h6553, \hdf93, \hc0aa, \h7bb7>>,
    <<\h7f52, \h87f9, \h66af, \hbbaf>>,
    <<\hf2ae, \he365, \h5c03, \h43e4>>,
    <<\h6317, \h5f95, \h3d5f, \he0b7>>,
    <<\h402e, \hbc3c, \ha44a, \h3c74>>,
    <<\h33c0, \ha84b, \h4e0b, \h6bde>>,
    <<\h2c0b, \h82c1, \hf2f0, \hc76b>>,
    <<\hc13f, \h37d8, \hff18, \h5280>>,
    <<\hb4d8, \hd945, \h19de, \h78ce>>,
    <<\h77fc, \h0b4e, \he46f, \h480d>>,
    <<\h056b, \h90c5, \h3007, \h1eee>>,  \* 64
    <<\h9345, \h1c8a, \h06b2, \h94b7>>,
    <<\h4cf1, \h15e2, \h7a94, \h1bf3>>,
    <<\hea69, \h4fcf, \hbf2a, \hed50>>,
    <<\h252f, \h29c3, \h2f22, \hc68e>>,
    <<\h635f, \h580c, \he72e, \hfd4a>>,
    <<\h96dd, \h8473, \h98e9, \h524c>>,
    <<\hdbbd, \h812a, \h1fcd, \h735e>>,
    <<\h609d, \h5f61, \hfc74, \h71ce>>,
    <<\hfff1, \h5858, \h35a0, \hfc28>>,
    <<\hc909, \h9e37, \h3829, \h8cee>>,
    <<\h150e, \h8c61, \h6b92, \he8ec>>,
    <<\hd5fc, \he047, \hdd7d, \h7f3a>>,
    <<\ha437, \hd814, \hba2d, \h406e>>,
    <<\h244f, \h6fb2, \hd4f9, \he1a2>>,
    <<\hb540, \h4fa6, \h1dbf, \ha198>>,
    <<\hb78c, \hf94a, \h0521, \hb6b8>>,
    <<\h46bb, \h4d05, \h397f, \h86c6>>,
    <<\habf5, \h7e4f, \h069f, \h12f1>>,
    <<\h82d8, \hb5ff, \h0bc0, \he687>>,
    <<\hd8be, \h49fe, \h4c67, \hc2bb>>,
    <<\h5e0b, \h4493, \h7367, \h2829>>,
    <<\hfa30, \hc0f8, \h8379, \h5a29>>,
    <<\hac95, \h838f, \hcbd0, \hfd1f>>,
    <<\h3b10, \h4a8f, \h83f1, \h24d0>>,
    <<\hb4d9, \h6752, \h0c07, \hb414>>,
    <<\hbfb5, \h8ca4, \h30e5, \hfac8>>,
    <<\hb6f9, \h901e, \h037f, \h0502>>,
    <<\h88e1, \hefd7, \hf129, \hbd04>>,
    <<\hce88, \h98ee, \h5560, \h1ab7>>,
    <<\hba7c, \hd423, \hbaea, \h3580>>,
    <<\h705b, \h496d, \h1bac, \hc5b7>>,
    <<\he205, \h6afc, \h25fb, \h151e>>,
    <<\hebed, \h048a, \h742d, \h0f5a>>,
    <<\h4031, \ha0ef, \h2941, \hca01>>,
    <<\h8a0d, \hb669, \h4b6c, \hda9a>>,
    <<\h9562, \hfd95, \hc2cc, \h2840>>,
    <<\h9e0f, \h2199, \h554a, \h15bf>>,
    <<\h5036, \h6f66, \hb66a, \hcd6b>>,
    <<\h7247, \hc809, \h4d89, \h8152>>,
    <<\h6bee, \h5272, \hea07, \h3ca9>>,
    <<\hb507, \hcf88, \h755d, \h0c2a>>,
    <<\h8a50, \h87de, \h2458, \hf91e>>,
    <<\h4b90, \ha11c, \h7581, \h3fea>>,
    <<\h8988, \he10d, \h2ec0, \hf726>>,
    <<\h2131, \h78e6, \hcc3c, \h84dc>>,
    <<\h2781, \h70c0, \h2c33, \hf6df>>,
    <<\hb8c6, \h01bb, \hb548, \h13e8>>,
    <<\h8af1, \h06d8, \h638e, \hfd85>>,
    <<\h30f6, \h296a, \hb9ab, \hfdc8>>,
    <<\h1938, \h5de1, \hd9af, \h44b0>>,
    <<\hda7c, \h4678, \h073a, \hb262>>,
    <<\h9c75, \hb7df, \h483b, \h3319>>,
    <<\he2a9, \h2634, \h372e, \h446e>>,
    <<\h4f3a, \h65c4, \hb995, \he9ba>>,
    <<\hd7de, \h79eb, \h6685, \hd001>>,
    <<\hc57d, \he767, \h56c6, \h0f95>>,
    <<\h39cb, \h4b1f, \hb6e6, \h55b3>>,
    <<\h577d, \h617c, \h9503, \h6700>>,
    <<\h5644, \h64bc, \hc382, \h3bc1>>,
    <<\hbe02, \he439, \hfc5d, \ha1e4>>,
    <<\h950b, \hb6ce, \h7064, \hdb42>>,
    <<\hf770, \h6ba8, \h5e0b, \h04d1>>,
    <<\h64e5, \h31b4, \h9bb0, \he139>>,
    <<\h307c, \h993c, \h33f7, \h55e5>>,  \* 128
    <<\h0f58, \h5e60, \h58ac, \h63a7>>,
    <<\hee3d, \h6aa0, \h436d, \he17e>>,
    <<\ha230, \h4559, \hf48a, \h828c>>,
    <<\h288d, \h22c4, \h1255, \h25f5>>,
    <<\h32b7, \he0bd, \h13c6, \hdfbc>>,
    <<\h4985, \he219, \h6418, \h9680>>,
    <<\hf944, \h957c, \h9111, \h3aee>>,
    <<\h5665, \hd12a, \h7e30, \had75>>,
    <<\h232d, \ha767, \h6b2c, \h5b28>>,
    <<\he460, \h5475, \hf2f8, \h2827>>,
    <<\haca8, \h62ac, \h69a9, \hd765>>,
    <<\h747c, \h1914, \h3e05, \hff14>>,
    <<\h7141, \hcf56, \h7605, \h4502>>,
    <<\h6f63, \h227f, \h1f81, \ha30f>>,
    <<\hf22a, \he8a7, \ha7b3, \h304e>>,
    <<\h1599, \h111d, \hc6e3, \h4d8b>>,
    <<\h8ac8, \hd195, \hd99d, \h4c94>>,
    <<\hd582, \h78e8, \h6571, \h1dc9>>,
    <<\hf69a, \heccf, \h080c, \h6a8e>>,
    <<\hc283, \h02ea, \h5bcc, \h1c12>>,
    <<\hffc6, \h1c20, \h29f9, \hd345>>,
    <<\h4e27, \hcff7, \hd22d, \hb8eb>>,
    <<\hf1c5, \h7199, \h99a3, \h8701>>,
    <<\h8a94, \h240f, \h64ff, \h51b6>>,
    <<\h4e19, \h9269, \h1a84, \h4c25>>,
    <<\h82c4, \h8847, \hc55b, \hedb0>>,
    <<\ha018, \h25ff, \h5dd1, \hfcf8>>,
    <<\h1f67, \h3f9d, \hf200, \h31df>>,
    <<\ha7f1, \hedf3, \h446d, \h8ca7>>,
    <<\hf0cc, \hb8df, \h3efa, \h9760>>,
    <<\h71c3, \hefa1, \hdf63, \h66b7>>,
    <<\h5636, \hc19f, \hf386, \h6d30>>,
    <<\hfb02, \h8dcf, \hd8f5, \h0e73>>,
    <<\h6245, \hb263, \h7ab1, \hc58e>>,
    <<\h90f3, \h8757, \h66ce, \h998d>>,
    <<\h28db, \ha12e, \h265d, \hb342>>,
    <<\hb4d8, \h6b9d, \hb8c0, \ha12d>>,
    <<\h7810, \hb052, \hb68c, \h78dc>>,
    <<\h113d, \hbfb6, \h8f3c, \h0d8a>>,
    <<\h8ed7, \h95a1, \he0b3, \h2d7f>>,
    <<\h8897, \h629d, \ha0ca, \h4247>>,
    <<\hf9a9, \hfa88, \ha4bb, \hc3b2>>,
    <<\h4550, \h4cdd, \h3f85, \h32cc>>,
    <<\hcf98, \h57d8, \ha5a8, \h3ae1>>,
    <<\h2f31, \h8b91, \h25e0, \h0a37>>,
    <<\h9426, \h4ee1, \hacbe, \hdfbf>>,
    <<\h5b3d, \hc83c, \h4e70, \hed1d>>,
    <<\hfb2e, \hef85, \he80b, \h5a20>>,
    <<\ha782, \h4d57, \he14f, \h677f>>,
    <<\hc500, \h4826, \ha9be, \hea9a>>,
    <<\h4836, \hbe63, \hdb51, \h8ff8>>,
    <<\hc9cf, \he860, \h1b7f, \ha451>>,
    <<\ha7ab, \h58cb, \hd728, \hfd30>>,
    <<\heb85, \h0482, \hf5b1, \h5edf>>,
    <<\h1aa8, \h8714, \hed1e, \hb973>>,
    <<\hfa8b, \h97a2, \h06b3, \hc521>>,
    <<\h1cf3, \hd300, \h56b4, \h177e>>,
    <<\h004a, \hdf81, \hfc0c, \he352>>,
    <<\h36a0, \h923b, \h063a, \h3fbb>>,
    <<\he240, \he21f, \h8aa0, \h6d6e>>,
    <<\h3bfe, \h1009, \h3122, \h2ff1>>,
    <<\h71c8, \h29f2, \h0a08, \h4e97>>,
    <<\h2569, \h62f2, \h79a1, \hba67>>,
    <<\h8cd1, \h76e9, \he998, \h3eaf>>,  \* 192
    <<\h50d1, \hcc06, \h9203, \hdac3>>,
    <<\hfe15, \ha1d7, \h34a3, \hb1fa>>,
    <<\hd658, \h407e, \hd044, \hd71a>>,
    <<\h587f, \hbf37, \h7a2b, \he26f>>,
    <<\had5c, \ha792, \hdd7d, \hfbfd>>,
    <<\ha0fe, \h554f, \h3e40, \h327e>>,
    <<\h913f, \h22ac, \hc368, \h96d4>>,
    <<\h5bb6, \he718, \h8290, \he354>>,
    <<\hb945, \heca9, \hca24, \h40f8>>,
    <<\h998e, \hbb6f, \h1851, \h0734>>,
    <<\h06fd, \h3b10, \ha802, \h6088>>,
    <<\hb69f, \hc71b, \hab98, \h8f3f>>,
    <<\hefd0, \hc709, \hae1b, \h7fb1>>,
    <<\hfca6, \h3362, \hf4ed, \h0769>>,
    <<\h3ed5, \h8fc9, \h0c22, \h8056>>,
    <<\h9978, \h590b, \h3b66, \h1d73>>,
    <<\hc311, \heed0, \hcf3d, \hc244>>,
    <<\h5ead, \h7ff3, \h3734, \h2c8f>>,
    <<\haf63, \hb255, \hb58c, \h07df>>,
    <<\h3736, \ha7c3, \h18ac, \h10c2>>,
    <<\h8d93, \h2537, \h7ac9, \h3655>>,
    <<\ha687, \hbf73, \h3506, \hf9ea>>,
    <<\hc854, \h34ba, \hb918, \h330d>>,
    <<\h04b2, \he724, \h7d55, \h3084>>,
    <<\hd757, \ha983, \h8f20, \he932>>,
    <<\hbc30, \hb0d3, \h3a90, \hbd8a>>,
    <<\hb5a8, \hd772, \h9433, \hb59c>>,
    <<\h3f55, \haea3, \h24f6, \he4e1>>,
    <<\h39e4, \h6dba, \h37eb, \hca00>>,
    <<\h2be0, \hfe13, \h64db, \h74a2>>,
    <<\ha6c3, \hcf3c, \hdad2, \ha720>>,
    <<\h5d05, \h24a3, \hf8cc, \h8ccc>>,
    <<\hdfa0, \h9a1c, \haf1d, \h4637>>,
    <<\h99ce, \h0108, \hc65a, \h6e9a>>,
    <<\h653b, \hb5cc, \h703d, \hd6c1>>,
    <<\hc220, \hc024, \hfd2d, \hf3e2>>,
    <<\h765b, \h8397, \h6a31, \h756d>>,
    <<\h67a4, \h88f7, \h574f, \hf083>>,
    <<\h128a, \h9f30, \h9a22, \h3790>>,
    <<\hc062, \h550e, \hcec0, \h5bbe>>,
    <<\h558e, \hb010, \ha5d4, \hacc7>>,
    <<\h275e, \h3657, \h8099, \h406a>>,
    <<\h3e9c, \h7019, \hb60f, \h8fb0>>,
    <<\h9786, \hf5ce, \haa38, \h9905>>,
    <<\h0d3e, \h9119, \h77a2, \hf657>>,
    <<\hb049, \h3e44, \h7d37, \h8715>>,
    <<\h57e9, \hab36, \hd2ca, \h1b70>>,
    <<\h2188, \h852c, \hfd8e, \h3d5c>>,
    <<\h8c46, \h5791, \h46ec, \h9c35>>,
    <<\hd67d, \hf1e8, \h8910, \h17ef>>,
    <<\h43d3, \h93b5, \hd130, \h2fb5>>,
    <<\h0a75, \hfa9f, \h72eb, \h3376>>,
    <<\h34e3, \h979e, \h6e12, \he0a0>>,
    <<\h12cf, \h42b6, \h6b9b, \h2b56>>,
    <<\h81a4, \h5b24, \h5f5c, \h5af1>>,
    <<\h1294, \h8775, \h013c, \h040f>>,
    <<\h1410, \hf02d, \h95ff, \h79d7>>,
    <<\h8794, \hade4, \h490b, \h648b>>,
    <<\h2ecc, \h564c, \h75e9, \h46b1>>,
    <<\h5aab, \he7dd, \he5b2, \he074>>,
    <<\hbb81, \h588c, \h4c4d, \h0d9b>>,
    <<\h0946, \h6662, \h6de6, \h55aa>>,
    <<\ha17b, \hb20c, \h4618, \h8986>>,
    <<\h1d15, \h6a9a, \hb597, \h0f7b>>,  \* 256
    <<\h1514, \hc76d, \h7246, \h3074>>,
    <<\h0629, \h3486, \h1c65, \h01f1>>,
    <<\h0d58, \hafaa, \h60e6, \h31ab>>,
    <<\hcec5, \h3bc9, \h1353, \hbbd4>>,
    <<\h1430, \h9f08, \hd3ee, \h6572>>,
    <<\he7f8, \hfee7, \h53a9, \h70d9>>,
    <<\h44a6, \h5552, \h76ce, \h7f8b>>,
    <<\hcd7f, \h55c7, \hadf4, \hfb45>>,
    <<\hfb78, \hbdfa, \h349f, \h5983>>,
    <<\h4599, \h3674, \h16bc, \hf560>>,
    <<\h6341, \h3251, \hb112, \h6cae>>,
    <<\h8b85, \h7e7f, \h4b66, \ha45d>>,
    <<\h3b43, \hbd9c, \h6c20, \hd158>>,
    <<\h2ee9, \hcafc, \h4ef3, \hfd0f>>,
    <<\hd8a7, \h3ca7, \h4f61, \h4959>>,
    <<\h0760, \h5f41, \h01ef, \h6fea>>,
    <<\h8ac7, \hc82d, \h6053, \ha728>>,
    <<\h3481, \h3803, \h474b, \h584b>>,
    <<\h4eb3, \hb065, \hf438, \hd096>>,
    <<\h8583, \h7d8a, \h182f, \h2715>>,
    <<\h6f92, \hf073, \hb277, \hcb63>>,
    <<\h1856, \h02c7, \hd6e0, \hb321>>,
    <<\hce59, \h1a3b, \ha54b, \h97e1>>,
    <<\h4e50, \h2ffb, \h1957, \h9316>>,
    <<\h0ebe, \hd006, \hc85e, \h2a56>>,
    <<\h123a, \h3f51, \h13f6, \h5fda>>,
    <<\h78ea, \h9aa1, \h11cc, \hc5e8>>,
    <<\hd9e2, \hd5d3, \h61f9, \hbb6e>>,
    <<\hf62e, \hd037, \h28c1, \hac0e>>,
    <<\h2dd0, \h74a8, \h418a, \hd260>>,
    <<\h4d64, \ha382, \h76a9, \hb225>>,
    <<\h9404, \h447b, \h3c6b, \h5745>>,
    <<\h3c64, \hb1cd, \h97a7, \hb625>>,
    <<\h2546, \h6b31, \h03d0, \h1e13>>,
    <<\h457e, \h9037, \hf1ea, \h4f07>>,
    <<\hcd25, \h4ef4, \h8669, \h49a7>>,
    <<\he399, \hcd68, \h1e93, \had7f>>,
    <<\h595d, \h2c67, \h4635, \hcbb4>>,
    <<\hfa00, \h0ef7, \hc44c, \h42cb>>,
    <<\hb773, \h17c7, \h97b9, \ha056>>,
    <<\h030f, \h6cf7, \hc29c, \h9403>>,
    <<\h0d9c, \h67b0, \h2d7c, \hdb97>>,
    <<\h4bf3, \hb33f, \h9db5, \h5ec3>>,
    <<\hed33, \h9b08, \h0e5c, \h0070>>,
    <<\h23b8, \h8ec7, \h18c9, \h3af8>>,
    <<\hd395, \h5f65, \h9b22, \h8da9>>,
    <<\h582d, \h85c4, \he701, \h50af>>,
    <<\h0ba9, \hf78f, \hf014, \h955f>>,
    <<\h6018, \hdf24, \h7036, \h19c9>>,
    <<\h0aa6, \h2c2d, \h8d1a, \hb248>>,
    <<\ha3cb, \h091b, \h1736, \h757f>>,
    <<\h0624, \h8924, \hf275, \h280b>>,
    <<\h6a28, \h4426, \h71b4, \hfa7c>>,
    <<\h9a2a, \ha68c, \h93c0, \hef4a>>,
    <<\h736b, \hf840, \h2070, \h3df1>>,
    <<\h36d8, \h58c6, \h2977, \h0b8b>>,
    <<\h5daf, \hfc4f, \hd89b, \hc94d>>,
    <<\h2906, \h44fd, \h06cb, \h73a9>>,
    <<\hf308, \h5c5c, \h2fb0, \h1ad1>>,
    <<\h0116, \hcafe, \h3489, \hbd1f>>,
    <<\hfa29, \hdc50, \h1c8b, \h9235>>,
    <<\h37f8, \hd0f1, \h5d83, \hb05f>>,
    <<\h1fd5, \h9b54, \h5c5c, \h034f>>,
    <<\h62e5, \h12eb, \hecce, \h910b>>,  \* 320
    <<\h7ae1, \ha73d, \hcf3e, \h0b3b>>,
    <<\h71fb, \hc15c, \hdd69, \h04ff>>,
    <<\h86d1, \hd594, \hf316, \hfaaa>>,
    <<\h7823, \h5825, \h18f8, \h4430>>,
    <<\h8060, \h52dc, \h8bb8, \h637b>>,
    <<\h88a9, \hb2bf, \h78af, \h64d6>>,
    <<\hbb42, \hd946, \h951b, \h2c79>>,
    <<\hb000, \h9650, \hecbb, \h2e34>>,
    <<\h42f0, \he19c, \h83fe, \heb27>>,
    <<\h56c8, \h01cf, \h34cc, \h2116>>,
    <<\h2607, \h2dd2, \hcf9c, \hb800>>,
    <<\ha4f8, \h4b13, \h6485, \hc012>>,
    <<\ha1aa, \h25e1, \hc3c1, \h3d33>>,
    <<\haa1e, \haaee, \h78e1, \hbef6>>,
    <<\h47a8, \ha880, \h6fb3, \h6939>>,
    <<\h6bbb, \h14e6, \h6b1a, \hd140>>,
    <<\hee6b, \h426a, \h09b0, \h98cd>>,
    <<\h7463, \h69c6, \h9cf5, \hcb6b>>,
    <<\ha7e7, \hb34a, \h38ba, \h17d2>>,
    <<\hb943, \hf8d4, \hfa49, \hb839>>,
    <<\h032b, \ha36f, \h0ec3, \h9215>>,
    <<\h1f57, \h4ee7, \h3497, \he324>>,
    <<\h3308, \h65f3, \h4903, \hfa0e>>,
    <<\ha4a3, \ha07b, \h1480, \hb0b5>>,
    <<\h13cb, \hf8db, \h5105, \h3de4>>,
    <<\he3f9, \h576c, \hda1d, \h1a21>>,
    <<\hf279, \he437, \hd75c, \h7a63>>,
    <<\hd614, \h64e0, \h0ad3, \h5583>>,
    <<\h9dea, \h1532, \hb857, \h18e1>>,
    <<\hdcd1, \h7e09, \h1f1c, \hb9e1>>,
    <<\hde47, \hb8a6, \ha602, \h3dc0>>,
    <<\h406c, \h45d1, \hfa24, \h798f>>,
    <<\he487, \h0924, \h7618, \h506d>>,
    <<\h0217, \h8206, \hc318, \h0d5a>>,
    <<\hb1b5, \hf5bb, \h71fd, \hae4a>>,
    <<\h5bdf, \h9afe, \h8ea3, \heb2b>>,
    <<\h8c8a, \he054, \h5201, \h9822>>,
    <<\h168c, \h8aa7, \h7b9c, \h234f>>,
    <<\h8e31, \hf5a9, \h3bb1, \h5e59>>,
    <<\h79df, \h48ed, \h645d, \h702a>>,
    <<\h2f0b, \hfb16, \hda09, \hd95e>>,
    <<\h3f6e, \hde16, \hf2b0, \hbcc2>>,
    <<\h31b4, \h8d48, \h0ef9, \h4e26>>,
    <<\h83f2, \h0a63, \h9d77, \hed8f>>,
    <<\h091f, \hec59, \h2796, \h8a9d>>,
    <<\h1059, \h78a3, \hc2b0, \h440e>>,
    <<\h9498, \h3862, \ha2c9, \h9543>>,
    <<\h5339, \he1d4, \h4d6e, \h7fa1>>,
    <<\hac36, \h0ffc, \h5008, \h47f3>>,
    <<\h149b, \h1b64, \h103a, \he17b>>,
    <<\hc4d2, \h21ea, \h776d, \hdfe6>>,
    <<\h2817, \he65c, \hd044, \h3c22>>,
    <<\h6a93, \h55e7, \h4874, \hd25c>>,
    <<\h5c49, \h0470, \h7ade, \h3bcc>>,
    <<\h6b77, \h9133, \h7a29, \h3005>>,
    <<\h2e00, \h1999, \h8e5f, \h565c>>,
    <<\hb3de, \hb646, \hc0ed, \ha0de>>,
    <<\h4cd4, \hb762, \ha143, \h4c83>>,
    <<\h28d4, \hbd90, \h7d30, \h4ed4>>,
    <<\h5625, \h9e20, \h22ac, \h5ff9>>,
    <<\h9a73, \hb261, \hc523, \h03bd>>,
    <<\h70d2, \hae52, \hf966, \ha3f8>>,
    <<\h5fc0, \hdf1b, \h26a9, \hd3aa>>,
    <<\h5973, \h6521, \h188b, \h0ebe>>,  \* 384
    <<\h8cd6, \hc8be, \h1b8a, \h9113>>,
    <<\h729e, \h45e6, \h0da4, \hb6f3>>,
    <<\h2210, \hcfd3, \h882c, \hb0c3>>,
    <<\h65e2, \he5d1, \h429a, \hd52d>>,
    <<\ha0ac, \ha8b5, \h2ac7, \ha924>>,
    <<\h3f4f, \hb045, \he7db, \h8747>>,
    <<\hc040, \h416b, \hebcd, \h4abc>>,
    <<\h0e80, \haddc, \h5dd2, \h7825>>,
    <<\h1ccf, \hb587, \hd574, \he3ce>>,
    <<\h4cb7, \h04ee, \hf99c, \hb12b>>,
    <<\h3388, \h9937, \h97ea, \hcd12>>,
    <<\h7a54, \hf0f5, \h9fd4, \hcf30>>,
    <<\h996b, \h88f6, \h4517, \h2a90>>,
    <<\h4651, \h8d6b, \h6540, \h57f7>>,
    <<\h07a2, \h6076, \hb38c, \h1f47>>,
    <<\hab9c, \hdf06, \h9592, \hd599>>,
    <<\h8720, \h08cb, \h0499, \h6c3b>>,
    <<\hc6c5, \h7ae6, \h3de1, \h423d>>,
    <<\hf6e0, \h280c, \h1e76, \hef28>>,
    <<\hdb16, \h919f, \h169d, \h4536>>,
    <<\hd105, \h2b66, \h6b28, \h168e>>,
    <<\h1207, \h9926, \h76e4, \hc98c>>,
    <<\hb0f0, \h6dad, \hd72b, \ha6ca>>,
    <<\hedb8, \h51a0, \h99f0, \h1b5c>>,
    <<\hbb77, \hc467, \hcc27, \h5db8>>,
    <<\h8dd7, \h3df5, \hdf20, \h1c5d>>,
    <<\h7fb5, \he4de, \hf7b3, \h1ad4>>,
    <<\hb3f4, \h47fb, \h49b4, \h6a8f>>,
    <<\h7654, \h8d57, \hc6b1, \h16b1>>,
    <<\hce4f, \hd836, \h83d3, \h203c>>,
    <<\hba17, \h8f58, \he85b, \hda66>>,
    <<\h5a9d, \h4948, \h7e1a, \h10b2>>,
    <<\h415a, \h29e6, \h5fc8, \hae5b>>,
    <<\hab46, \hdf6e, \h442d, \h0e2f>>,
    <<\h3de7, \hb906, \hde26, \hc16c>>,
    <<\h0716, \hf016, \h590b, \ha1bc>>,
    <<\h00cb, \h24be, \hcc53, \hfa89>>,
    <<\h977b, \h17df, \h78c0, \h883a>>,
    <<\hffca, \h1067, \h2669, \hcbc5>>,
    <<\hfebe, \h60c2, \h6b11, \h7781>>,
    <<\hebc3, \h1a03, \h957a, \hd75c>>,
    <<\h9ce3, \h9035, \h8648, \h3ede>>,
    <<\h3215, \hfb64, \h1b85, \h747a>>,
    <<\h08ab, \hb687, \h37ca, \h83d6>>,
    <<\hf5f7, \h7c4f, \h6b48, \h0f90>>,
    <<\ha51a, \he98e, \h8736, \hc2aa>>,
    <<\hdb27, \h8fce, \ha888, \hb1dc>>,
    <<\hdf57, \h6602, \h9d57, \h8c6b>>,
    <<\h38dc, \h2d11, \h1662, \h7b41>>,
    <<\ha72a, \hb7ba, \h05f6, \hb35a>>,
    <<\ha126, \hab40, \h5d58, \ha87f>>,
    <<\h9955, \h3a22, \h3d15, \h8113>>,
    <<\h6efd, \h3bc9, \ha4ae, \h3d2a>>,
    <<\h3ea5, \hc3f2, \h3007, \hd9ef>>,
    <<\ha29a, \h3a72, \h9482, \h3954>>,
    <<\h8b43, \h5528, \hd887, \h193f>>,
    <<\h42c4, \ha688, \h24f5, \h70cf>>,
    <<\h752a, \h09de, \h6951, \hd79b>>,
    <<\heafa, \h5d82, \h5cb0, \hdca8>>,
    <<\h61a0, \h1b92, \hbaa2, \hdf12>>,
    <<\h04af, \h1a47, \habd7, \h403a>>,
    <<\h9853, \hdc36, \hca1e, \hb605>>,
    <<\h27f5, \hbb02, \h4d3e, \h68d7>>,
    <<\h00d5, \hff04, \h7363, \h9f0f>>,  \* 448
    <<\h1d80, \haab4, \h05e0, \hf292>>,
    <<\hfba5, \hb417, \hf2a6, \hcf0a>>,
    <<\h5765, \h17cc, \he5a7, \ha764>>,
    <<\h3a71, \he4c3, \he482, \h0969>>,
    <<\h2791, \hc4cb, \h440b, \hab9c>>,
    <<\h1a5e, \h5f17, \hc489, \hb8fd>>,
    <<\hf471, \had00, \h0131, \hdf08>>,
    <<\h7cd0, \h18e5, \h68c6, \hb1c9>>,
    <<\hbb6a, \h8078, \had94, \hb510>>,
    <<\h0167, \h3d76, \hc33a, \haafd>>,
    <<\h2d97, \hd3f9, \h3bf9, \hf9a3>>,
    <<\hecfa, \h2318, \h2d50, \h97a6>>,
    <<\h222e, \h86fe, \hb9ae, \h723d>>,
    <<\hb511, \h02bc, \hd98f, \h2dcc>>,
    <<\hdaf8, \h6240, \h35af, \h2463>>,
    <<\h5ce4, \h42f7, \hf7c9, \hec0e>>,
    <<\hc3e9, \h6c97, \hd93f, \h5802>>,
    <<\h5d07, \h5464, \h9095, \hdef3>>,
    <<\h21b9, \h5717, \hb098, \h8ec8>>,
    <<\h1f34, \h8558, \hefd8, \h11cb>>,
    <<\h645f, \h1f52, \hb9e0, \h8f11>>,
    <<\h3e26, \hb958, \h5ad8, \h9ef4>>,
    <<\h1f05, \h94e7, \ha7c7, \hf31e>>,
    <<\hc5be, \h79e4, \hc1fc, \h97bc>>,
    <<\hd6d5, \h0b4e, \h971c, \h048d>>,
    <<\ha0df, \h1922, \h6463, \h91e2>>,
    <<\he9e3, \hb3a5, \hc054, \h1a52>>,
    <<\hc4f2, \h5818, \hd6f4, \h9ac9>>,
    <<\hf250, \h14dd, \hb0c2, \had59>>,
    <<\hc459, \hb52a, \hf4c8, \h680c>>,
    <<\hed54, \h4c60, \h7f0c, \h988d>>,
    <<\hf879, \h9b5d, \h0747, \h21c5>>,
    <<\h4cf7, \hd8f4, \h6b21, \hc77e>>,
    <<\hc5c5, \h8980, \h8356, \h098b>>,
    <<\hdf77, \h2ce3, \hebf6, \h1a32>>,
    <<\ha7c9, \hc467, \hd5a6, \heb67>>,
    <<\hc16d, \h626e, \hefd2, \h5a96>>,
    <<\hbd65, \h1fa5, \hfc56, \hbf0f>>,
    <<\h6a80, \h0285, \h6eb9, \hdbea>>,
    <<\h0281, \h52b2, \h7c2c, \h7f00>>,
    <<\h379e, \hbf01, \h25a5, \hcb67>>,
    <<\hb252, \h5dc8, \h9e85, \hd434>>,
    <<\h5484, \h354f, \he6e9, \h07c1>>,
    <<\h66ba, \hd8ff, \h9df6, \hcfe9>>,
    <<\he881, \h556d, \h292e, \h2dc3>>,
    <<\hdf96, \h7d3e, \ha8b0, \h4d79>>,
    <<\h2d6a, \h250d, \h0477, \h1b96>>,
    <<\h166f, \hf816, \hcd9a, \hebc5>>,
    <<\h5c91, \h495a, \hd5b1, \h5568>>,
    <<\hfa16, \h4696, \hd686, \heb0d>>,
    <<\h1707, \h4958, \h4911, \hd5f7>>,
    <<\h77f1, \ha0e7, \hc7c0, \h5aa7>>,
    <<\h77c0, \h5935, \h2da5, \he909>>,
    <<\hbf38, \hb4af, \hee27, \h2604>>,
    <<\h75da, \hf545, \he29a, \ha413>>,
    <<\ha2f0, \hd0eb, \hca5a, \h59d3>>,
    <<\h36cc, \ha390, \h43fe, \h12ee>>,
    <<\h17fa, \hc99a, \h0de8, \hd5b9>>,
    <<\hf5ec, \h29f8, \h4150, \hd816>>,
    <<\h05f7, \h828f, \h181d, \ha06e>>,
    <<\h6c11, \h9859, \h5cdf, \ha26f>>,
    <<\h1535, \hc5f7, \haf3f, \h8562>>,
    <<\h46cd, \hdc6f, \h8a1d, \h5f39>>,
    <<\h937d, \h61ed, \h59c4, \h79bc>>,  \* 512
    <<\hb06f, \h740e, \hb41a, \h2b86>>,
    <<\h2859, \hc7da, \h95ff, \h0218>>,
    <<\h2136, \h7878, \hbcd4, \h2d42>>,
    <<\hd3c2, \h1952, \h8133, \hd266>>,
    <<\h2246, \hc03a, \h37b0, \hc15b>>,
    <<\h1ab1, \hc509, \hc916, \hd2c6>>,
    <<\h3b73, \hef98, \h38ce, \h715a>>,
    <<\h0d70, \hbe41, \h15ff, \h7760>>,
    <<\h47bd, \h2aae, \he475, \h3e86>>,
    <<\hd3a5, \ha6e4, \hf91a, \ha5a7>>,
    <<\h3a56, \h14d0, \hec28, \h0591>>,
    <<\hfae4, \h54e8, \h1828, \h61a8>>,
    <<\h6960, \h1e61, \h633b, \hd497>>,
    <<\h4019, \hb759, \h07d6, \h4fe0>>,
    <<\h3ef6, \h7603, \ha448, \h1a14>>,
    <<\h14f1, \hfc1f, \h9b72, \hb1ad>>,
    <<\h1d1a, \h9f81, \hf973, \h9b61>>,
    <<\h6de9, \had12, \h276f, \h1e74>>,
    <<\h0ffe, \h1a16, \hfaba, \h8a92>>,
    <<\h097a, \hb17d, \h94ea, \hf7e6>>,
    <<\hb589, \hd03e, \hce95, \h4f2d>>,
    <<\hcc14, \hb1f5, \hbd99, \h342e>>,
    <<\h3ba8, \h3935, \hf231, \hc3ac>>,
    <<\h65c5, \hfea4, \h5bdb, \h2dac>>,
    <<\h0d54, \hff03, \hdf29, \h3c24>>,
    <<\h15f9, \hff11, \hf55f, \h68cd>>,
    <<\h4e45, \h4ff8, \h4f93, \hd9a5>>,
    <<\h8e4a, \h73e6, \h3f91, \h34ea>>,
    <<\h816f, \h23a6, \h7578, \h07aa>>,
    <<\h615e, \h0b01, \hfe3e, \h721f>>,
    <<\h9442, \hc7f2, \hce3d, \h42d6>>,
    <<\h5ccc, \h085b, \hed8e, \h61e7>>,
    <<\hae88, \h9e05, \h14c6, \h5eb5>>,
    <<\hff7c, \heacf, \h1fd4, \h4f42>>,
    <<\h141c, \hd1ef, \h32f8, \he120>>,
    <<\hb412, \hc00d, \hdb9b, \h0bdd>>,
    <<\h442e, \h1b27, \h99b3, \h8246>>,
    <<\h5466, \h7657, \h716f, \h977f>>,
    <<\h9648, \hec86, \h3161, \h46d2>>,
    <<\h4ad4, \h8821, \h449f, \h3de8>>,
    <<\hf864, \h67fe, \hd9fd, \h7f18>>,
    <<\ha58c, \h54d7, \h8810, \h5425>>,
    <<\h3862, \hb144, \h3f97, \he52a>>,
    <<\h3edf, \h79c8, \hb6b7, \h6a3d>>,
    <<\hf8f0, \hb186, \hfe2f, \h20a2>>,
    <<\h60c5, \h386e, \h9ef8, \h1244>>,
    <<\ha6e2, \he6e6, \ha8d7, \hf1d3>>,
    <<\h90eb, \hb0ad, \h72d3, \hf993>>,
    <<\h616f, \h50f4, \he9d0, \h506d>>,
    <<\hc4e3, \ha8e3, \h3fd9, \h2eb5>>,
    <<\h9d1b, \h89f4, \h6afc, \h9b64>>,
    <<\h99c5, \h2e62, \h840f, \h2378>>,
    <<\h0aa6, \heeb7, \hcdd4, \h353e>>,
    <<\hee40, \ha12c, \h5af3, \h341b>>,
    <<\h1829, \h85cb, \ha6ce, \h04ed>>,
    <<\hd21d, \h33e2, \h5cbe, \h7b34>>,
    <<\hdc76, \hd785, \hb423, \h401f>>,
    <<\hc4d8, \hbc35, \h94a5, \h506a>>,
    <<\h14a4, \hf8ff, \h15c1, \h20cb>>,
    <<\h4a10, \hb2cc, \h729a, \h8261>>,
    <<\h76bf, \had35, \ha60a, \h6400>>,
    <<\hd26a, \h5837, \h5fa3, \h21a4>>,
    <<\h6a35, \h45a6, \he508, \haba4>>,
    <<\hd9be, \heaaf, \h2678, \ha526>>,  \* 576
    <<\hb767, \h85fc, \h12e4, \hcba0>>,
    <<\h4bf3, \ha2cb, \h044c, \h017e>>,
    <<\hffed, \hbc07, \h0551, \h3b40>>,
    <<\h4aec, \h1529, \hd497, \hea09>>,
    <<\hddc2, \h99cd, \h0aeb, \h7ce7>>,
    <<\he1f0, \hd103, \h2690, \h45b7>>,
    <<\h8b9a, \h8c06, \h3682, \h3b7f>>,
    <<\h90d6, \h9f30, \ha997, \heb2f>>,
    <<\hb32a, \h12b8, \h55d5, \hd4ad>>,
    <<\he6c6, \h0f4b, \h0639, \h9276>>,
    <<\h77f1, \h7e67, \h6a7e, \h7aa8>>,
    <<\hf528, \hd8d2, \hbeb9, \h366c>>,
    <<\h459e, \h15de, \h52d1, \he31c>>,
    <<\h4a0c, \hfa0d, \h4248, \h1ae2>>,
    <<\hb940, \h8fc6, \hc50c, \hf910>>,
    <<\hdf90, \hcdcb, \h2cfe, \h5817>>,
    <<\hf719, \h945e, \h43a8, \h16a5>>,
    <<\h9e39, \h8a5a, \hb317, \hd3f2>>,
    <<\hbb03, \h3d41, \hb665, \hd786>>,
    <<\h47f6, \h77a7, \he111, \hd96d>>,
    <<\hb145, \h737e, \ha8a8, \h6f87>>,
    <<\h34c0, \h4c17, \h1c79, \h55af>>,
    <<\h6ddb, \hbcaa, \h14c9, \h0aaf>>,
    <<\he018, \hff62, \h7ef0, \h2658>>,
    <<\h5315, \hfa53, \h0514, \hc7fe>>,
    <<\h9f18, \h5d86, \h619c, \h7cf3>>,
    <<\h1165, \h072c, \hac4a, \hdb20>>,
    <<\h6c45, \h11a9, \h6a1a, \h11c2>>,
    <<\h8644, \hb79e, \h2ee8, \he3db>>,
    <<\hcfec, \h8f1f, \h7322, \h0e65>>,
    <<\h8b4e, \h9188, \h914f, \ha2f8>>,
    <<\hb3b6, \h7d3f, \h882c, \h1555>>,
    <<\h7566, \h7367, \h300a, \h13b2>>,
    <<\h938b, \hf75c, \hcaf8, \h55a6>>,
    <<\h9026, \h495f, \hd3a2, \h5a07>>,
    <<\hb640, \h3620, \h19ad, \h28bb>>,
    <<\h9ad3, \h8e2c, \hd3fc, \hcf3e>>,
    <<\h3556, \hb8b4, \hc18a, \h84d4>>,
    <<\hc995, \h7009, \hbd97, \h2458>>,
    <<\h8ca2, \h6ca2, \h9b73, \h119a>>,
    <<\h6174, \h933a, \h0827, \h5ef2>>,
    <<\h6222, \hdb1b, \h3be1, \ha6d0>>,
    <<\h52e7, \hf618, \ha04e, \hd7f6>>,
    <<\h7540, \hf6dd, \h7694, \ha87b>>,
    <<\h6a1a, \hc542, \hc608, \hb159>>,
    <<\h143e, \h516c, \h40de, \h2ef8>>,
    <<\h08f6, \h2ab7, \h981b, \h2dff>>,
    <<\h2c1d, \h8c89, \ha170, \h7e6d>>,
    <<\hf070, \h9956, \he9d0, \h8f93>>,
    <<\hd8f9, \hf776, \h9da8, \ha87d>>,
    <<\h093c, \hb749, \h1652, \h584b>>,
    <<\h6158, \h1855, \ha41a, \hf5fe>>,
    <<\h9bd8, \hda36, \hd3a2, \hc281>>,
    <<\h48f6, \hd4d7, \hc980, \he516>>,
    <<\h452b, \ha767, \hfd37, \h14c7>>,
    <<\hb87c, \h775f, \h8806, \he953>>,
    <<\h8e7d, \hbbea, \hbd4a, \h5d19>>,
    <<\h6b0f, \h9823, \hc13d, \hb95f>>,
    <<\h136e, \had9e, \h118f, \h5bcd>>,
    <<\ha14c, \h3cb2, \hb388, \h60e1>>,
    <<\h0c06, \hd72c, \hcb88, \h1663>>,
    <<\h009a, \hb6d1, \hbccb, \ha23e>>,
    <<\h2fca, \h9d02, \hbfb5, \hd6d7>>,
    <<\h892d, \h2162, \h1f9f, \h0936>>,  \* 640
    <<\ha934, \h774d, \hcdb0, \hb4c2>>,
    <<\hbfc4, \he6b2, \hd816, \hcee4>>,
    <<\h11fb, \h6302, \h5699, \h2f78>>,
    <<\h7f98, \he13c, \h58aa, \hd60f>>,
    <<\h4b1a, \h44f9, \h8cfe, \h80b4>>,
    <<\h5584, \h22de, \h06e2, \ha65f>>,
    <<\h1fcb, \h5159, \hd2aa, \h4505>>,
    <<\hf12f, \h6ad2, \h327d, \h5cd5>>,
    <<\h2db9, \h31f7, \h7868, \hb107>>,
    <<\hb3c5, \hd6c4, \h1bcd, \hb387>>,
    <<\h0bd0, \h7496, \h56cd, \h99d4>>,
    <<\hf99c, \ha4fc, \he61e, \h0260>>,
    <<\h89c7, \hf6f7, \hec41, \h348a>>,
    <<\hcdba, \he1e6, \hd9e4, \he8eb>>,
    <<\hacc6, \h6fd2, \h3dde, \h8ef5>>,
    <<\h383f, \h386b, \he7c3, \h2d7e>>,
    <<\he213, \hc077, \hcc01, \h836f>>,
    <<\hdaa8, \h5587, \h822d, \hbc72>>,
    <<\h3dac, \hfea1, \hd47d, \h516a>>,
    <<\hb77e, \hf4a5, \ha771, \h1cf8>>,
    <<\hbebf, \h57a7, \hbc6b, \hbe25>>,
    <<\hca61, \h1d60, \he8b3, \hdb03>>,
    <<\hf19e, \h0575, \h45f5, \h92ff>>,
    <<\h500f, \hd16a, \ha1ed, \h0bbf>>,
    <<\h892a, \hcde7, \hcabc, \h7110>>,
    <<\hfd2c, \h40bb, \h34a4, \h51a8>>,
    <<\h0194, \h9cc1, \hb786, \h6ee5>>,
    <<\h9355, \h1485, \h39b2, \ha94e>>,
    <<\h1285, \hecf4, \h7fa1, \h5a24>>,
    <<\h369c, \h477a, \hf166, \h2025>>,
    <<\h6b7b, \h7235, \h28eb, \h58bd>>,
    <<\hb45d, \h0597, \hdfca, \h7b76>>,
    <<\h7ed7, \hfd98, \h4e84, \h835c>>,
    <<\hdcf1, \h2c2f, \he69c, \h1be5>>,
    <<\h2902, \hf3e3, \h0499, \hefcf>>,
    <<\h6fc9, \haa7b, \h071a, \hbeb9>>,
    <<\h8316, \h3043, \h52c2, \hab46>>,
    <<\h3597, \h97ca, \hf6ab, \he81c>>,
    <<\h081b, \h1d06, \h52a0, \h08b9>>,
    <<\he7dd, \h8d81, \h45ea, \ha4ce>>,
    <<\ha8a7, \hc3c3, \h91cd, \h911d>>,
    <<\h1c00, \hf71d, \h9004, \h474a>>,
    <<\hffb5, \hc6ec, \h09ab, \hd2f2>>,
    <<\h3d34, \hc1cc, \h2bf1, \hb3d4>>,
    <<\hcc19, \h968d, \h88bd, \h305b>>,
    <<\hc96f, \h0f34, \hec69, \hd8bf>>,
    <<\h40a7, \h03d2, \h40ee, \h4b64>>,
    <<\h02fd, \h68f3, \h9a33, \hcb1e>>,
    <<\h37cd, \hf62a, \h716d, \h5075>>,
    <<\h0758, \h8d7f, \h6d77, \h4daf>>,
    <<\h4e73, \h2721, \ha225, \hdf96>>,
    <<\haf83, \h47a0, \h4142, \hd9ce>>,
    <<\he15d, \h1e5a, \hec62, \h32c3>>,
    <<\h1c52, \h8153, \h56bc, \hcc68>>,
    <<\hdf84, \hc0c0, \h0413, \he90f>>,
    <<\h0097, \h305f, \h1902, \h8aa9>>,
    <<\hf2f1, \h0e58, \h7114, \hbe41>>,
    <<\h5ca9, \hff9d, \he6f0, \h4b04>>,
    <<\h1dca, \h1daf, \h1e2c, \hefe2>>,
    <<\h5f78, \h6890, \h61c0, \h9267>>,
    <<\hc45b, \h07cc, \ha4d8, \h4e75>>,
    <<\hcfb1, \hf954, \ha79a, \h24dc>>,
    <<\h1170, \he975, \hfa65, \h4aad>>,
    <<\hec23, \hc26e, \hc935, \h4da9>>,  \* 704
    <<\h99df, \hfb2e, \ha3e2, \h67f2>>,
    <<\h323a, \h25b9, \hc7db, \h224d>>,
    <<\h672d, \haa5f, \h8abd, \h7456>>,
    <<\h8819, \hfebe, \hc2e4, \h3a2e>>,
    <<\h6a5b, \h0c76, \h155b, \h5c62>>,
    <<\h54e8, \h6994, \h8bd9, \h96e1>>,
    <<\h82ff, \h0991, \h9d24, \hfcdc>>,
    <<\h8759, \h3ab5, \hc0d1, \h9817>>,
    <<\hf253, \h1cd9, \h0ecb, \hdd54>>,
    <<\ha380, \h2058, \heab8, \hd62a>>,
    <<\h68b7, \h3aec, \hf7a1, \h3455>>,
    <<\h441a, \hada6, \hc0dc, \ha616>>,
    <<\h3e37, \h807b, \h4dea, \hd060>>,
    <<\h30f6, \h46e7, \hd7fb, \h15e6>>,
    <<\hbdf1, \h2ae0, \h0793, \h529c>>,
    <<\he289, \hbe17, \hd43f, \hff13>>,
    <<\h2386, \h66eb, \h5d0a, \h81fa>>,
    <<\ha149, \hed23, \he91b, \h5a61>>,
    <<\h191e, \h10de, \h904d, \h6095>>,
    <<\h8074, \hbf45, \h6ee3, \hb6a4>>,
    <<\hdacf, \h0179, \h9f24, \h3cb0>>,
    <<\h1cad, \h34be, \hde8e, \hb758>>,
    <<\h8e5b, \hc400, \h6d05, \hcf71>>,
    <<\h6414, \hcf92, \hbdfd, \h9ac0>>,
    <<\h5f6f, \h4b59, \h5538, \h839b>>,
    <<\h915e, \hce47, \h5f3e, \he35a>>,
    <<\hfd73, \hc357, \h99e2, \h8b1e>>,
    <<\h7657, \h945c, \h99bc, \h4e43>>,
    <<\hc832, \hf9fc, \h0702, \hcb94>>,
    <<\h579c, \h3e51, \h40ed, \h698a>>,
    <<\h0bd9, \h03b1, \hf556, \h76d7>>,
    <<\hdb50, \h78aa, \he316, \heb18>>,
    <<\h24fa, \hfcf8, \hf89d, \hfda0>>,
    <<\h3153, \h09ef, \hce3b, \hdead>>,
    <<\h71b0, \h99ac, \hd1a7, \h34b5>>,
    <<\h2495, \h8f46, \h035a, \h17e0>>,
    <<\h7e1b, \h2cce, \h618b, \h2722>>,
    <<\hb34a, \h8203, \h3318, \h8a9b>>,
    <<\h9191, \h3a69, \h407e, \h8ad4>>,
    <<\hcca0, \hbbc8, \h01ba, \h986f>>,
    <<\hf6a5, \h2dea, \hea46, \h088a>>,
    <<\hb182, \h52a8, \heee8, \h4c1c>>,
    <<\h4acb, \h07d6, \h81cd, \h2259>>,
    <<\hf906, \h9e49, \h8d93, \hdf90>>,
    <<\h8bed, \h3964, \h1d66, \h8800>>,
    <<\h3fc2, \h771c, \h5c76, \hb3f7>>,
    <<\h91bf, \ha787, \h3337, \h2fbb>>,
    <<\h3327, \h4aef, \h99d1, \ha3fd>>,
    <<\h61f6, \hecb0, \h1320, \h8e0d>>,
    <<\h61c5, \h2b6c, \hcd16, \hf989>>,
    <<\h3eee, \h4990, \h3132, \h6792>>,
    <<\hfe52, \h9376, \h67dd, \h8934>>,
    <<\hf59d, \h3f67, \hef63, \he028>>,
    <<\h58cb, \hfdde, \h18b7, \h7b3a>>,
    <<\h3850, \ha63f, \hbe94, \h4f5c>>,
    <<\h5fd6, \h1182, \h6aa6, \hd39b>>,
    <<\h1b85, \h8039, \h28ae, \h69f6>>,
    <<\h56b9, \hc9d3, \h0b2d, \h116b>>,
    <<\he9c0, \hd5af, \h0756, \h4159>>,
    <<\h99ce, \h5cd5, \h70f8, \he38d>>,
    <<\h59e1, \he36b, \haf97, \h3375>>,
    <<\hd45a, \hb4be, \h4679, \h9ed9>>,
    <<\h61ee, \h4105, \h274a, \h99ff>>,
    <<\hfdcf, \he1e7, \h35eb, \h3ce4>>,  \* 768
    <<\hcb46, \hdfe5, \h7142, \h99e7>>,  \* 769
    <<\hd015, \he946, \h7aa7, \heaaa>>,  \* 770
    <<\h2285, \h4a84, \hffd3, \h42a9>>,  \* 771
    <<\h4c2f, \hd81e, \h3404, \h2cb4>>,  \* 772
    <<\h07ae, \h0d34, \hb075, \h961a>>,  \* 773
    <<\h4ab7, \hd1ca, \h4938, \hbf7e>>,  \* 774
    <<\h5957, \hda47, \hd50e, \h2c27>>,  \* 775
    <<\h44cd, \h597a, \h887f, \hc7f5>>,  \* 776
    <<\h4b81, \h6838, \h3a71, \h99f8>>,  \* 777
    <<\hd82d, \h0d4d, \h964d, \ha4ac>>,  \* 778
    <<\h1b96, \hade4, \hc5a9, \hff62>>,  \* 779
    <<\h4d61, \hfb55, \hf7cb, \hd455>>  \* 780
>>

\* a u64 given by its limbs, as the set of its set bits
WordOfLimbs(limbs) ==
    {b \in 0 .. 63 : ((limbs[4 - (b \div 16)] \div Pow2(b % 16)) % 2) = 1}

numbers == [ix \in 0 .. 780 |-> WordOfLimbs(ZobristNumbers[ix + 1])]

piece_index(colour, piece, coord) ==
    LET coord_ix == coord
        piece_ix == CASE piece = "King" -> 0 * 64
                      [] piece = "Queen" -> 1 * 64
                      [] piece = "Rook" -> 2 * 64
                      [] piece = "Bishop" -> 3 * 64
                      [] piece = "Knight" -> 4 * 64
                      [] piece = "Pawn" -> 5 * 64
        colour_ix == IF colour = "White" THEN 0 * 6 * 64 ELSE 1 * 6 * 64
    IN colour_ix + piece_ix + coord_ix

toggle_active_colour(zh) == Xor(zh, numbers[BLACK_TO_MOVE])
toggle_piece(zh, colour, piece, coord) ==
    Xor(zh, numbers[piece_index(colour, piece, coord)])
toggle_en_passant(zh, en_passant) ==
    Xor(zh, numbers[EN_PASSANT + BitCoordFile(en_passant)])
toggle_white_queenside(zh) == Xor(zh, numbers[WHITE_QUEENSIDE])
toggle_white_kingside(zh) == Xor(zh, numbers[WHITE_KINGSIDE])
toggle_black_queenside(zh) == Xor(zh, numbers[BLACK_QUEENSIDE])
toggle_black_kingside(zh) == Xor(zh, numbers[BLACK_KINGSIDE])

RECURSIVE toggle_pieces(_, _, _, _)
toggle_pieces(zh, colour, piece, bb) ==
    IF bb = {} THEN zh
    ELSE LET coord == CHOOSE c \in bb : \A d \in bb : c <= d
         IN toggle_pieces(toggle_piece(zh, colour, piece, coord), colour,
                          piece, bb \ {coord})

\* the loop over the twelve bitboards of a state
HashPieces(state) ==
    toggle_pieces(
     toggle_pieces(
      toggle_pieces(
       toggle_pieces(
        toggle_pieces(
         toggle_pieces(
          toggle_pieces(
           toggle_pieces(
            toggle_pieces(
             toggle_pieces(
              toggle_pieces(
               toggle_pieces({}, "White", "King", state.white.pieces.King),
               "White", "Queen", state.white.pieces.Queen),
              "White", "Rook", state.white.pieces.Rook),
             "White", "Bishop", state.white.pieces.Bishop),
            "White", "Knight", state.white.pieces.Knight),
           "White", "Pawn", state.white.pieces.Pawn),
          "Black", "King", state.black.pieces.King),
         "Black", "Queen", state.black.pieces.Queen),
        "Black", "Rook", state.black.pieces.Rook),
       "Black", "Bishop", state.black.pieces.Bishop),
      "Black", "Knight", state.black.pieces.Knight),
     "Black", "Pawn", state.black.pieces.Pawn)

HashActiveColour(state, zh) ==
    IF state.active_colour = "Black" THEN toggle_active_colour(zh) ELSE zh

HashWhiteQueenside(state, zh) ==
    IF state.white.can_castle_queenside THEN toggle_white_queenside(zh) ELSE zh

HashWhiteKingside(state, zh) ==
    IF state.white.can_castle_kingside THEN toggle_white_kingside(zh) ELSE zh

HashBlackQueenside(state, zh) ==
    IF state.black.can_castle_queenside THEN toggle_black_queenside(zh) ELSE zh

HashBlackKingside(state, zh) ==
    IF state.black.can_castle_kingside THEN toggle_black_kingside(zh) ELSE zh

HashEnPassant(state, zh) ==
    IF state.en_passant /= None THEN toggle_en_passant(zh, state.en_passant[1])
    ELSE zh

\* ZobristHasher::hash: the hash of a state computed from scratch
hash(state) ==
    HashEnPassant(state,
     HashBlackKingside(state,
      HashBlackQueenside(state,
       HashWhiteKingside(state,
        HashWhiteQueenside(state,
         HashActiveColour(state, HashPieces(state)))))))

(***************************************************************************)
(* The position and make_move (chess-lib/src/game.rs).                     *)
(***************************************************************************)
\* fifty_move_clock is a u8: `+= 1' wraps at 2^8 in a release build (a debug
\* build panics with `attempt to add with overflow' instead)
U8 == 256

GameStateNew(active_colour, white, black, en_passant, fifty_move_clock) ==
    LET unhashed == [active_colour |-> active_colour, white |-> white,
                     black |-> black, en_passant |-> en_passant,
                     fifty_move_clock |-> fifty_move_clock, zh |-> {}]
    IN [unhashed EXCEPT !.zh = hash(unhashed)]

SideOf(state, colour) == IF colour = "White" THEN state.white ELSE state.black
active_side(state) == SideOf(state, state.active_colour)
other_side(state) == SideOf(state, other(state.active_colour))

\* the pieces of one side replaced
WithPieces(state, colour, pieces) ==
    IF colour = "White" THEN [state EXCEPT !.white.pieces = pieces]
    ELSE [state EXCEPT !.black.pieces = pieces]

put_active_piece(state, piece, coord) ==
    [WithPieces(state, state.active_colour,
                put_piece(active_side(state).pieces, piece, coord))
        EXCEPT !.zh = toggle_piece(@, state.active_colour, piece, coord)]

remove_active_piece(state, piece, coord) ==
    [WithPieces(state, state.active_colour,
                remove_piece(active_side(state).pieces, piece, coord))
        EXCEPT !.zh = toggle_piece(@, state.active_colour, piece, coord)]

remove_other_piece(state, piece, coord) ==
    [WithPieces(state, other(state.active_colour),
                remove_piece(other_side(state).pieces, piece, coord))
        EXCEPT !.zh = toggle_piece(@, other(state.active_colour), piece,
                                   coord)]

set_en_passant(state, coord) ==
    [state EXCEPT !.en_passant = Some(coord),
                  !.zh = toggle_en_passant(
                             IF state.en_passant /= None
                             THEN toggle_en_passant(@, state.en_passant[1])
                             ELSE @,
                             coord)]

clear_en_passant(state) ==
    IF state.en_passant /= None
    THEN [state EXCEPT !.en_passant = None,
                       !.zh = toggle_en_passant(state.zh, state.en_passant[1])]
    ELSE state

disable_active_queenside_castle(state) ==
    IF state.active_colour = "White"
    THEN [state EXCEPT !.white.can_castle_queenside = FALSE,
                       !.zh = toggle_white_queenside(@)]
    ELSE [state EXCEPT !.black.can_castle_queenside = FALSE,
                       !.zh = toggle_black_queenside(@)]

disable_active_kingside_castle(state) ==
    IF state.active_colour = "White"
    THEN [state EXCEPT !.white.can_castle_kingside = FALSE,
                       !.zh = toggle_white_kingside(@)]
    ELSE [state EXCEPT !.black.can_castle_kingside = FALSE,
                       !.zh = toggle_black_kingside(@)]

disable_other_queenside_castle(state) ==
    IF state.active_colour = "White"
    THEN [state EXCEPT !.black.can_castle_queenside = FALSE,
                       !.zh = toggle_black_queenside(@)]
    ELSE [state EXCEPT !.white.can_castle_queenside = FALSE,
                       !.zh = toggle_white_queenside(@)]

disable_other_kingside_castle(state) ==
    IF state.active_colour = "White"
    THEN [state EXCEPT !.black.can_castle_kingside = FALSE,
                       !.zh = toggle_black_kingside(@)]
    ELSE [state EXCEPT !.white.can_castle_kingside = FALSE,
                       !.zh = toggle_white_kingside(@)]

\* the corner squares: bit 7 is a1, bit 0 h1, bit 63 a8, bit 56 h8
queenside_rook(colour) == IF colour = "White" THEN 7 ELSE 63
kingside_rook(colour) == IF colour = "White" THEN 0 ELSE 56

\* the piece leaves src and lands on tgt
Relocate(state, piece, src, tgt) ==
    put_active_piece(remove_active_piece(state, piece, src), piece, tgt)

\* a capture that leaves the taken piece on its bitboard
TakeTarget_LeavesPiece(state, tgt) == state

\* the piece of the other side on tgt, if any, is taken
TakeTarget(state, tgt) ==
    LET taken == get_piece(other_side(state).pieces, tgt)
    IN IF taken /= None THEN remove_other_piece(state, taken[1], tgt)
       ELSE state

\* a pawn landing on the en passant square takes the pawn behind it
TakesEnPassant(state, piece, tgt) ==
    piece = "Pawn" /\ state.en_passant = Some(tgt)

TakeEnPassant(state, piece, tgt) ==
    IF TakesEnPassant(state, piece, tgt)
    THEN remove_other_piece(state, "Pawn",
                            IF state.active_colour = "White" THEN tgt - 8
                            ELSE tgt + 8)
    ELSE state

KingMoved(state, piece) ==
    IF piece = "King"
    THEN disable_active_queenside_castle(disable_active_kingside_castle(state))
    ELSE state

RookMoved(state, src) ==
    IF src = queenside_rook(state.active_colour)
    THEN disable_active_queenside_castle(state)
    ELSE IF src = kingside_rook(state.active_colour)
         THEN disable_active_kingside_castle(state)
         ELSE state

\* a capture on a corner that leaves the right of the side that lost the rook
RookTaken_KeepsRight(state, tgt) == state

RookTaken(state, tgt) ==
    IF tgt = queenside_rook(other(state.active_colour))
    THEN disable_other_queenside_castle(state)
    ELSE IF tgt = kingside_rook(other(state.active_colour))
         THEN disable_other_kingside_castle(state)
         ELSE state

\* an en-passant square that is set after a double push and never cleared
UpdateEnPassant_NeverClears(state, piece, src, tgt) ==
    IF piece = "Pawn" /\ (src = tgt + 16 \/ src = tgt - 16)
    THEN set_en_passant(state, IF state.active_colour = "White" THEN tgt - 8
                               ELSE tgt + 8)
    ELSE state

UpdateEnPassant(state, piece, src, tgt) ==
    IF piece = "Pawn" /\ (src = tgt + 16 \/ src = tgt - 16)
    THEN set_en_passant(state, IF state.active_colour = "White" THEN tgt - 8
                               ELSE tgt + 8)
    ELSE clear_en_passant(state)

AdjustClocks(state, is_pawn, is_capture) ==
    IF is_pawn \/ is_capture THEN [state EXCEPT !.fifty_move_clock = 0]
    ELSE state

\* the statements of move_piece in their order: `s \in {e}' names the state
\* that statement e leaves before the next statement runs on it
move_piece(state, piece, src, tgt) ==
    CHOOSE done \in
        {AdjustClocks(s7, piece = "Pawn",
                      \/ get_piece(other_side(state).pieces, tgt) /= None
                      \/ TakesEnPassant(state, piece, tgt)) :
          s7 \in {UpdateEnPassant(s6, piece, src, tgt) :
           s6 \in {RookTaken(s5, tgt) :
            s5 \in {RookMoved(s4, src) :
             s4 \in {KingMoved(s3, piece) :
              s3 \in {TakeEnPassant(s2, piece, tgt) :
               s2 \in {TakeTarget(s1, tgt) :
                s1 \in {Relocate(state, piece, src, tgt)}}}}}}}} : TRUE

\* the squares a castle empties and fills, on the mover's home rank
CastleSquares(state, mv) ==
    LET home == IF state.active_colour = "White" THEN 0 ELSE 56
    IN IF mv.kind = "Castle"
       THEN [king_from |-> home + 3, rook_from |-> home + 0,
             king_to |-> home + 1, rook_to |-> home + 2]
       ELSE [king_from |-> home + 3, rook_from |-> home + 7,
             king_to |-> home + 5, rook_to |-> home + 4]

make_move(state, mv) ==
    LET s0 == [state EXCEPT !.fifty_move_clock = (@ + 1) % U8]
        moved ==
            CASE mv.kind = "Normal" -> move_piece(s0, mv.piece, mv.src, mv.tgt)
              [] mv.kind = "Promotion" ->
                    put_active_piece(
                        remove_active_piece(
                            move_piece(s0, "Pawn", mv.src, mv.tgt),
                            "Pawn", mv.tgt),
                        mv.piece, mv.tgt)
              [] OTHER ->
                    LET sq == CastleSquares(s0, mv)
                        c1 == remove_active_piece(s0, "King", sq.king_from)
                        c2 == remove_active_piece(c1, "Rook", sq.rook_from)
                        c3 == put_active_piece(c2, "King", sq.king_to)
                        c4 == put_active_piece(c3, "Rook", sq.rook_to)
                        c5 == disable_active_kingside_castle(c4)
                        c6 == disable_active_queenside_castle(c5)
                    IN clear_en_passant(c6)
    IN [moved EXCEPT !.active_colour = other(@),
                     !.zh = toggle_active_colour(@)]

(***************************************************************************)
(* The 0x88 board of the move generator (chess-lib/src/board.rs).  A       *)
(* Coordinate is a u8 with the file in the upper nibble and the rank in    *)
(* the lower one; a Square is << >> when empty and <<colour, piece>> when  *)
(* occupied.                                                               *)
(***************************************************************************)
wrapping_add(a, b) == (a + b) % 256
wrapping_sub(a, b) == (a - b + 256) % 256
wrapping_mul(a, b) == (a * b) % 256

Empty == << >>

RIGHT == 16
LEFT == wrapping_sub(0, RIGHT)
UP == 1
DOWN == wrapping_sub(0, UP)
UP_RIGHT == wrapping_add(UP, RIGHT)
UP_LEFT == wrapping_add(UP, LEFT)
DOWN_RIGHT == wrapping_add(DOWN, RIGHT)
DOWN_LEFT == wrapping_add(DOWN, LEFT)

STRAIGHTS == <<LEFT, RIGHT, UP, DOWN>>
DIAGONALS == <<UP_LEFT, UP_RIGHT, DOWN_LEFT, DOWN_RIGHT>>
ALL == <<LEFT, RIGHT, UP, DOWN, UP_LEFT, UP_RIGHT, DOWN_LEFT, DOWN_RIGHT>>
KNIGHT ==
    <<wrapping_add(RIGHT, wrapping_mul(UP, 2)),
      wrapping_add(RIGHT, wrapping_mul(DOWN, 2)),
      wrapping_add(LEFT, wrapping_mul(UP, 2)),
      wrapping_add(LEFT, wrapping_mul(DOWN, 2)),
      wrapping_add(UP, wrapping_mul(LEFT, 2)),
      wrapping_add(UP, wrapping_mul(RIGHT, 2)),
      wrapping_add(DOWN, wrapping_mul(LEFT, 2)),
      wrapping_add(DOWN, wrapping_mul(RIGHT, 2))>>

is_straight(dir) == dir = RIGHT \/ dir = LEFT \/ dir = UP \/ dir = DOWN
is_diagonal(dir) ==
    dir = UP_RIGHT \/ dir = UP_LEFT \/ dir = DOWN_RIGHT \/ dir = DOWN_LEFT
reverse(dir) == wrapping_sub(0, dir)

\* coord & 0x88 == 0
is_in_bounds(coord) == coord % 16 < 8 /\ coord < 128
rank(coord) == coord % 16
file(coord) == (coord \div 16) % 16

\* the squares of the board, in the order the generator visits them
Coords ==
    LET n == 64
    IN [i \in 1 .. n |-> ((i - 1) \div 8) * 16 + ((i - 1) % 8)]

\* Coordinate <-> BitCoord: file f, rank r is bit 8 r + 7 - f
CoordOfBit(n) == (7 - (n % 8)) * 16 + (n \div 8)
BitOfCoord(coord) == rank(coord) * 8 + 7 - file(coord)

find_piece(state, coord) ==
    LET w == get_piece(state.white.pieces, coord)
        b == get_piece(state.black.pieces, coord)
    IN IF w /= None THEN Some(<<"White", w[1]>>)
       ELSE IF b /= None THEN Some(<<"Black", b[1]>>)
       ELSE None

\* the board array of a position; `@@ << >>' leaves the function as it is
\* and has its 120 squares computed once, when the array is built
BoardOf(state) ==
    [c \in 0 .. 119 |->
        IF is_in_bounds(c) /\ find_piece(state, BitOfCoord(c)) /= None
        THEN find_piece(state, BitOfCoord(c))[1]
        ELSE Empty] @@ << >>

(***************************************************************************)
(* Attacks on a square (chess-lib/src/moves.rs).  A u128 mask of squares   *)
(* is the set of the Coordinates whose bits are set.                       *)
(***************************************************************************)
Check(bs) == [kind |-> "Check", coord |-> 0, squares |-> bs]
Pin(c, bs) == [kind |-> "Pin", coord |-> c, squares |-> bs]

piece_attacks_at_distance(piece, dist) ==
    CASE piece = "King" -> dist = 1
      [] piece = "Pawn" -> dist = 1
      [] piece = "Knight" -> FALSE
      [] OTHER -> TRUE

piece_attacks_in_direction(colour, piece, dir) ==
    CASE piece = "King" -> TRUE
      [] piece = "Queen" -> TRUE
      [] piece = "Rook" -> is_straight(dir)
      [] piece = "Bishop" -> is_diagonal(dir)
      [] piece = "Knight" -> FALSE
      [] piece = "Pawn" ->
            IF colour = "White" THEN dir = UP_LEFT \/ dir = UP_RIGHT
            ELSE dir = DOWN_LEFT \/ dir = DOWN_RIGHT

RECURSIVE LineAttack(_, _, _, _, _, _, _)
\* the loop over Line::new(coord, dir): the attack found along dir, if any
LineAttack(board, colour, dir, cur, dist, blocks, pin) ==
    LET c == wrapping_add(cur, dir)
        d == dist + 1
        b == blocks \cup {c}
    IN IF ~is_in_bounds(c) THEN << >>
       ELSE IF board[c] = Empty
            THEN LineAttack(board, colour, dir, c, d, b, pin)
       ELSE IF board[c][1] = colour
            THEN IF pin /= None THEN << >>
                 ELSE LineAttack(board, colour, dir, c, d, b, Some(c))
       ELSE IF piece_attacks_in_direction(board[c][1], board[c][2],
                                          reverse(dir))
                   /\ piece_attacks_at_distance(board[c][2], d)
            THEN IF pin = None THEN <<Check(b)>> ELSE <<Pin(pin[1], b)>>
       ELSE << >>

\* the attacks found along the directions ALL[lo .. hi], in that order
RECURSIVE LineAttacksIn(_, _, _, _, _)
LineAttacksIn(board, coord, colour, lo, hi) ==
    IF lo = hi THEN LineAttack(board, colour, ALL[lo], coord, 0, {}, None)
    ELSE LineAttacksIn(board, coord, colour, lo, (lo + hi) \div 2)
            \o LineAttacksIn(board, coord, colour, (lo + hi) \div 2 + 1, hi)

LineAttacks(board, coord, colour, i) ==
    IF i > Len(ALL) THEN << >>
    ELSE LineAttacksIn(board, coord, colour, i, Len(ALL))

RECURSIVE KnightAttacks(_, _, _, _)
KnightAttacks(board, coord, colour, i) ==
    IF i > Len(KNIGHT) THEN << >>
    ELSE LET knight_coord == wrapping_add(coord, KNIGHT[i])
             here == IF is_in_bounds(knight_coord)
                        /\ board[knight_coord] /= Empty
                        /\ board[knight_coord][2] = "Knight"
                        /\ board[knight_coord][1] /= colour
                     THEN <<Check({knight_coord})>> ELSE << >>
         IN here \o KnightAttacks(board, coord, colour, i + 1)

attacks_on_square(board, coord, colour) ==
    LineAttacks(board, coord, colour, 1) \o KnightAttacks(board, coord, colour, 1)

square_under_attack(board, coord, colour) ==
    \E i \in DOMAIN attacks_on_square(board, coord, colour) :
        attacks_on_square(board, coord, colour)[i].kind = "Check"

(***************************************************************************)
(* Piece movement (chess-lib/src/moves.rs).                                *)
(***************************************************************************)
can_capture(board, colour, coord) ==
    board[coord] /= Empty /\ board[coord][1] /= colour

RECURSIVE moves_in_line(_, _, _, _, _)
\* UntilBlocked over Line::new(cur, dir).take(limit), captures allowed
moves_in_line(board, colour, cur, dir, limit) ==
    LET nxt == wrapping_add(cur, dir)
    IN IF limit = 0 \/ ~is_in_bounds(nxt) THEN << >>
       ELSE IF board[nxt] = Empty
            THEN <<nxt>> \o moves_in_line(board, colour, nxt, dir, limit - 1)
       ELSE IF board[nxt][1] /= colour THEN <<nxt>>
       ELSE << >>

\* the moves along the directions dirs[lo .. hi], in that order
RECURSIVE LineMovesIn(_, _, _, _, _, _, _)
LineMovesIn(board, coord, colour, dirs, range, lo, hi) ==
    IF lo = hi THEN moves_in_line(board, colour, coord, dirs[lo], range)
    ELSE LineMovesIn(board, coord, colour, dirs, range, lo, (lo + hi) \div 2)
            \o LineMovesIn(board, coord, colour, dirs, range,
                           (lo + hi) \div 2 + 1, hi)

LineMoves(board, coord, colour, dirs, range, i) ==
    IF i > Len(dirs) THEN << >>
    ELSE LineMovesIn(board, coord, colour, dirs, range, i, Len(dirs))

PawnMoves(board, coord, colour, en_passant) ==
    LET fwd == IF colour = "White" THEN UP ELSE DOWN
        d1 == IF colour = "White" THEN UP_LEFT ELSE DOWN_LEFT
        d2 == IF colour = "White" THEN UP_RIGHT ELSE DOWN_RIGHT
        home_rank == IF colour = "White" THEN 1 ELSE 6
        capture(tgt) == can_capture(board, colour, tgt) \/ en_passant = Some(tgt)
        t0 == wrapping_add(coord, fwd)
        t1 == wrapping_add(coord, wrapping_mul(fwd, 2))
        t2 == wrapping_add(coord, d1)
        t3 == wrapping_add(coord, d2)
        step0 == is_in_bounds(t0) /\ board[t0] = Empty
        step1 == step0 /\ rank(coord) = home_rank /\ is_in_bounds(t1)
                    /\ board[t1] = Empty
    IN (IF step0 THEN <<t0>> ELSE << >>)
        \o (IF step1 THEN <<t1>> ELSE << >>)
        \o (IF is_in_bounds(t2) /\ capture(t2) THEN <<t2>> ELSE << >>)
        \o (IF is_in_bounds(t3) /\ capture(t3) THEN <<t3>> ELSE << >>)

piece_movement(board, coord, en_passant) ==
    LET colour == board[coord][1]
        piece == board[coord][2]
    IN CASE piece = "King" -> LineMoves(board, coord, colour, ALL, 1, 1)
         [] piece = "Queen" -> LineMoves(board, coord, colour, ALL, 8, 1)
         [] piece = "Rook" -> LineMoves(board, coord, colour, STRAIGHTS, 8, 1)
         [] piece = "Bishop" -> LineMoves(board, coord, colour, DIAGONALS, 8, 1)
         [] piece = "Knight" -> LineMoves(board, coord, colour, KNIGHT, 1, 1)
         [] piece = "Pawn" -> PawnMoves(board, coord, colour, en_passant)

(***************************************************************************)
(* legal_moves (chess-lib/src/moves.rs).                                   *)
(***************************************************************************)
KingCoord(state, colour) ==
    CoordOfBit(CHOOSE n \in SideOf(state, colour).pieces.King : TRUE)

EnPassantCoord(state) ==
    IF state.en_passant = None THEN None
    ELSE Some(CoordOfBit(state.en_passant[1]))

RECURSIVE AllowedNonKingMoves(_, _)
\* the u128 of all ones, and-ed with the mask of every check
AllowedNonKingMoves(attacks, i) ==
    IF i > Len(attacks) THEN 0 .. 127
    ELSE IF attacks[i].kind = "Check"
         THEN attacks[i].squares \cap AllowedNonKingMoves(attacks, i + 1)
         ELSE AllowedNonKingMoves(attacks, i + 1)

\* pins[c]: the mask of the last Pin recorded for c, if any
PinsOf(attacks) ==
    [c \in 0 .. 119 |->
        LET ixs == {i \in DOMAIN attacks :
                        attacks[i].kind = "Pin" /\ attacks[i].coord = c}
        IN IF ixs = {} THEN None
           ELSE Some(attacks[CHOOSE i \in ixs : \A j \in ixs : j <= i].squares)]

RECURSIVE MovesFrom(_, _, _)
MovesFrom(coord, tgts, i) ==
    IF i > Len(tgts) THEN << >>
    ELSE <<<<coord, tgts[i]>>>> \o MovesFrom(coord, tgts, i + 1)

\* the moves of the pieces of `colour' on Coords[lo .. hi], in that order
RECURSIVE MovesOfCoords(_, _, _, _, _)
MovesOfCoords(board, colour, en_passant, lo, hi) ==
    IF lo > hi THEN << >>
    ELSE IF lo = hi
         THEN IF board[Coords[lo]] /= Empty /\ board[Coords[lo]][1] = colour
              THEN MovesFrom(Coords[lo],
                             piece_movement(board, Coords[lo], en_passant), 1)
              ELSE << >>
         ELSE MovesOfCoords(board, colour, en_passant, lo, (lo + hi) \div 2)
                 \o MovesOfCoords(board, colour, en_passant,
                                  (lo + hi) \div 2 + 1, hi)

moves_without_restrictions(board, colour, en_passant, i) ==
    MovesOfCoords(board, colour, en_passant, i, Len(Coords))

\* the filter that keeps a move only if it answers every check
moves_respecting_checks(board, en_passant, allowed, king_coord, src, tgt) ==
    \/ board[src][2] = "Pawn" /\ en_passant = Some(tgt)
    \/ tgt \in allowed
    \/ src = king_coord

\* the filter that keeps a pinned piece on the line of its pin
moves_respecting_pins(pins, src, tgt) ==
    IF pins[src] /= None THEN tgt \in pins[src][1] ELSE TRUE

moves_without_suicidal_king(board_without_king, colour, king_coord, src, tgt) ==
    IF src = king_coord
    THEN ~square_under_attack(board_without_king, tgt, colour)
    ELSE TRUE

\* an en passant test that never looks at the board after the capture
en_passant_is_safe_Unchecked(board, colour, king_coord, src, tgt) == TRUE

\* the board after the en passant capture src x tgt leaves the king safe
en_passant_is_safe(board, colour, king_coord, src, tgt) ==
    LET taken_coord == wrapping_add(tgt, IF colour = "White" THEN DOWN ELSE UP)
        new_board == [board EXCEPT ![tgt] = board[src], ![src] = Empty,
                                   ![taken_coord] = Empty]
    IN ~square_under_attack(new_board, king_coord, colour)

\* the loop that pushes a filtered move, expanded if it is a pawn's
ExpandMove(board, colour, en_passant, king_coord, src, tgt) ==
    LET s == BitOfCoord(src)
        t == BitOfCoord(tgt)
    IN IF board[src][2] = "Pawn"
       THEN IF rank(tgt) = 7 \/ rank(tgt) = 0
            THEN <<Promotion(s, t, "Queen"), Promotion(s, t, "Rook"),
                   Promotion(s, t, "Bishop"), Promotion(s, t, "Knight")>>
            ELSE IF en_passant = Some(tgt)
                 THEN IF en_passant_is_safe(board, colour, king_coord, src, tgt)
                      THEN <<Normal("Pawn", s, t)>> ELSE << >>
                 ELSE <<Normal("Pawn", s, t)>>
       ELSE <<Normal(board[src][2], s, t)>>

\* the filters and the expansion for the candidates ms[lo .. hi], in order
RECURSIVE FilterRange(_, _, _, _, _, _, _, _, _, _)
FilterRange(ms, lo, hi, board, board_without_king, colour, en_passant, king_coord, allowed, pins) ==
    IF lo > hi THEN << >>
    ELSE IF lo = hi
         THEN IF /\ moves_respecting_checks(board, en_passant, allowed,
                                            king_coord, ms[lo][1], ms[lo][2])
                 /\ moves_respecting_pins(pins, ms[lo][1], ms[lo][2])
                 /\ moves_without_suicidal_king(board_without_king, colour,
                                                king_coord, ms[lo][1],
                                                ms[lo][2])
              THEN ExpandMove(board, colour, en_passant, king_coord,
                              ms[lo][1], ms[lo][2])
              ELSE << >>
         ELSE FilterRange(ms, lo, (lo + hi) \div 2, board, board_without_king,
                          colour, en_passant, king_coord, allowed, pins)
                 \o FilterRange(ms, (lo + hi) \div 2 + 1, hi, board,
                                board_without_king, colour, en_passant,
                                king_coord, allowed, pins)

FilterAndExpand(ms, i, board, board_without_king, colour, en_passant, king_coord, allowed, pins) ==
    FilterRange(ms, i, Len(ms), board, board_without_king, colour,
                en_passant, king_coord, allowed, pins)

\* a castling test that also wants the rook's b-file square un-attacked
CastlingMoves_GuardsRookPath(board_without_king, side, colour) ==
    LET home_rank == IF colour = "White" THEN 0 ELSE 7
        sq(f) == f * 16 + home_rank
        attacked(f) == square_under_attack(board_without_king, sq(f), colour)
        long == side.can_castle_queenside
                /\ ~(\/ board_without_king[sq(1)] /= Empty
                     \/ board_without_king[sq(2)] /= Empty
                     \/ board_without_king[sq(3)] /= Empty
                     \/ attacked(1)
                     \/ attacked(2) \/ attacked(3) \/ attacked(4))
        short == side.can_castle_kingside
                 /\ ~(\/ board_without_king[sq(5)] /= Empty
                      \/ board_without_king[sq(6)] /= Empty
                      \/ attacked(4) \/ attacked(5) \/ attacked(6))
    IN (IF long THEN <<LongCastle>> ELSE << >>)
        \o (IF short THEN <<Castle>> ELSE << >>)

CastlingMoves(board_without_king, side, colour) ==
    LET home_rank == IF colour = "White" THEN 0 ELSE 7
        sq(f) == f * 16 + home_rank
        attacked(f) == square_under_attack(board_without_king, sq(f), colour)
        long == side.can_castle_queenside
                /\ ~(\/ board_without_king[sq(1)] /= Empty
                     \/ board_without_king[sq(2)] /= Empty
                     \/ board_without_king[sq(3)] /= Empty
                     \/ attacked(2) \/ attacked(3) \/ attacked(4))
        short == side.can_castle_kingside
                 /\ ~(\/ board_without_king[sq(5)] /= Empty
                      \/ board_without_king[sq(6)] /= Empty
                      \/ attacked(4) \/ attacked(5) \/ attacked(6))
    IN (IF long THEN <<LongCastle>> ELSE << >>)
        \o (IF short THEN <<Castle>> ELSE << >>)

legal_moves(state) ==
    LET colour == state.active_colour
        side == SideOf(state, colour)
        board == BoardOf(state)
        king_coord == KingCoord(state, colour)
        en_passant == EnPassantCoord(state)
        attacks == attacks_on_square(board, king_coord, colour)
        allowed == AllowedNonKingMoves(attacks, 1)
        pins == PinsOf(attacks)
        board_without_king == [board EXCEPT ![king_coord] = Empty]
        candidates == moves_without_restrictions(board, colour, en_passant, 1)
    IN FilterAndExpand(candidates, 1, board, board_without_king, colour,
                       en_passant, king_coord, allowed, pins)
        \o CastlingMoves(board_without_king, side, colour)

(***************************************************************************)
(* Positions, as load_fen builds them (chess-lib/src/fen.rs).              *)
(***************************************************************************)
coord(f, r) == (f % 16) * 16 + (r % 16)

\* the BitCoord of the square on file f (0 = a) and rank r (0 = rank 1)
At(f, r) == BitOfCoord(coord(f, r))

SideStateOf(pieces, kingside, queenside) ==
    [pieces |-> pieces, can_castle_kingside |-> kingside,
     can_castle_queenside |-> queenside]

\* castling is the set of the letters of the FEN castling field
load_fen(active_colour, white, black, castling, en_passant) ==
    GameStateNew(active_colour,
                 SideStateOf(white, "K" \in castling, "Q" \in castling),
                 SideStateOf(black, "k" \in castling, "q" \in castling),
                 en_passant, 0)

\* rnbqkbnr/pppppppp/8/8/8/8/PPPPPPPP/RNBQKBNR w KQkq - 0 1
STARTING_POSITION ==
    LET back(r) == [King |-> {At(4, r)}, Queen |-> {At(3, r)},
                    Rook |-> {At(0, r), At(7, r)},
                    Bishop |-> {At(2, r), At(5, r)},
                    Knight |-> {At(1, r), At(6, r)}, Pawn |-> {}]
    IN load_fen("White",
                [back(0) EXCEPT !.Pawn = {At(f, 1) : f \in 0 .. 7}],
                [back(7) EXCEPT !.Pawn = {At(f, 6) : f \in 0 .. 7}],
                {"K", "Q", "k", "q"}, None)

\* r3k2r/8/8/8/8/8/8/R3K2R w KQkq - 0 1
CastlingPosition ==
    load_fen("White",
             [EmptyPieces EXCEPT !.King = {At(4, 0)},
                                 !.Rook = {At(0, 0), At(7, 0)}],
             [EmptyPieces EXCEPT !.King = {At(4, 7)},
                                 !.Rook = {At(0, 7), At(7, 7)}],
             {"K", "Q", "k", "q"}, None)

\* 8/8/8/KPp4r/8/8/8/6k1 w - c6 0 1
EnPassantPinPosition ==
    load_fen("White",
             [EmptyPieces EXCEPT !.King = {At(0, 4)}, !.Pawn = {At(1, 4)}],
             [EmptyPieces EXCEPT !.King = {At(6, 0)}, !.Rook = {At(7, 4)},
                                 !.Pawn = {At(2, 4)}],
             {}, Some(At(2, 5)))

\* 1n2k3/P7/8/8/3pP3/8/8/4K3 b - e3 0 1
PromotionPosition ==
    load_fen("Black",
             [EmptyPieces EXCEPT !.King = {At(4, 0)},
                                 !.Pawn = {At(0, 6), At(4, 3)}],
             [EmptyPieces EXCEPT !.King = {At(4, 7)}, !.Knight = {At(1, 7)},
                                 !.Pawn = {At(3, 3)}],
             {}, Some(At(4, 2)))

\* 4k3/4r3/8/8/8/8/4N3/q3K3 w - - 0 1: a check, and a knight pinned
PinnedKnightPosition ==
    load_fen("White",
             [EmptyPieces EXCEPT !.King = {At(4, 0)}, !.Knight = {At(4, 1)}],
             [EmptyPieces EXCEPT !.King = {At(4, 7)}, !.Rook = {At(4, 6)},
                                 !.Queen = {At(0, 0)}],
             {}, None)

\* 4k3/8/8/8/8/8/8/4K3 w - -, built with GameState::new after 255 plies
\* without a pawn move or a capture
LongShufflePosition ==
    GameStateNew("White",
                 SideStateOf([EmptyPieces EXCEPT !.King = {At(4, 0)}],
                             FALSE, FALSE),
                 SideStateOf([EmptyPieces EXCEPT !.King = {At(4, 7)}],
                             FALSE, FALSE),
                 None, U8 - 1)

(***************************************************************************)
(* A game: any legal move, made with make_move, MaxPlies times over.       *)
(***************************************************************************)
NoMove == [kind |-> "None", piece |-> "King", src |-> 0, tgt |-> 0]

Init ==
    /\ game \in {STARTING_POSITION, CastlingPosition, EnPassantPinPosition,
                 PromotionPosition, PinnedKnightPosition,
                 LongShufflePosition}
    /\ plies = 0
    /\ lastMove = NoMove
    /\ search = None
    /\ tt = TranspositionTableNew(48, "prefer_higher")
    /\ lastOp = NoOp
    /\ inserted = [k \in TTKeys |-> {}]
    /\ ttOps = 0
    /\ oracle = None
    /\ mcts = None

\* the moves of a Vec<Move>
MoveSet(moves) == {moves[i] : i \in DOMAIN moves}

MakeMove ==
    /\ plies < MaxPlies
    /\ \E mv \in MoveSet(legal_moves(game)) :
          /\ game' = make_move(game, mv)
          /\ lastMove' = mv
    /\ plies' = plies + 1
    /\ UNCHANGED <<tt, lastOp, inserted, ttOps, search, oracle, mcts>>

Next == MakeMove

Spec == Init /\ [][Next]_vars


(***************************************************************************)
(* perft.rs: the number of move sequences of a given length.               *)
(***************************************************************************)
RECURSIVE perft(_, _)
RECURSIVE PerftSum(_, _, _, _)

\* moves.iter().map(|m| perft(state after m, depth - 1)).sum(), from index i
PerftSum(state, moves, depth, i) ==
    IF i > Len(moves) THEN 0
    ELSE perft(make_move(state, moves[i]), depth - 1)
             + PerftSum(state, moves, depth, i + 1)

\* a count of every position passed through, not only of the last ones
perft_CountsNodes(state, depth) ==
    IF depth = 0 THEN 1
    ELSE 1 + PerftSum(state, legal_moves(state), depth, 1)

perft(state, depth) ==
    IF depth = 0 THEN 1
    ELSE PerftSum(state, legal_moves(state), depth, 1)

(***************************************************************************)
(* Evaluation and alpha-beta search (chess-ai/src/eval.rs, minimax.rs).    *)
(* A score is an i64.  The search only compares and negates scores, and    *)
(* the evaluator stays within a few thousand centipawns, so an i64 is      *)
(* represented by an integer that keeps order and negation: i64::MAX is    *)
(* I64_MAX, i64::MAX - 1 is I64_MAX - 1, i64::MIN + 1 is -I64_MAX.         *)
(***************************************************************************)
I64_MAX == Pow2(30) + 1

count_piece(bb, value) == Cardinality(bb) * value

count_material(pieces) ==
    count_piece(pieces.Queen, 900) + count_piece(pieces.Rook, 500)
        + count_piece(pieces.Bishop, 300) + count_piece(pieces.Knight, 300)
        + count_piece(pieces.Pawn, 100)

\* eval::evaluate: the material balance seen by the side to move
evaluate_material(state) ==
    count_material(active_side(state).pieces)
        - count_material(other_side(state).pieces)

CacheData(depth, score, best_move) ==
    [depth |-> depth, score |-> score, best_move |-> best_move]

\* AlphaBeta::new: a table of tt_size bytes under prefer_higher
AlphaBetaNew(tt_size) == TranspositionTableNew(tt_size, "prefer_higher")

RECURSIVE SelectMoves(_, _, _, _)
\* the moves of `moves' whose sort key (0 for best_move, 1 otherwise) is key
SelectMoves(moves, best_move, key, i) ==
    IF i > Len(moves) THEN << >>
    ELSE (IF (IF best_move = Some(moves[i]) THEN 0 ELSE 1) = key
          THEN <<moves[i]>> ELSE << >>)
            \o SelectMoves(moves, best_move, key, i + 1)

\* moves.sort_unstable_by_key(|m| if best_move == Some(*m) { 0 } else { 1 })
sort_by_best_move(moves, best_move) ==
    SelectMoves(moves, best_move, 0, 1) \o SelectMoves(moves, best_move, 1, 1)

RECURSIVE eval_recursive(_, _, _, _, _)
RECURSIVE SearchMoves(_, _, _, _, _, _, _, _, _)

\* the body of the loop for the i-th move, given what the recursive call on
\* the position after it returned
SearchMove(game_, depth, moves, i, alpha, beta, s, best_move, sub) ==
    IF -sub.score >= beta
    THEN [s |-> beta, best_move |-> Some(moves[i]), tt |-> sub.tt]
    ELSE IF -sub.score > alpha
         THEN SearchMoves(sub.tt, game_, depth, moves, i + 1, -sub.score,
                          beta, -sub.score, Some(moves[i]))
         ELSE SearchMoves(sub.tt, game_, depth, moves, i + 1, alpha, beta, s,
                          best_move)

\* the loop over the ordered moves, from the i-th on; t is the table so far
SearchMoves(t, game_, depth, moves, i, alpha, beta, s, best_move) ==
    IF i > Len(moves) THEN [s |-> s, best_move |-> best_move, tt |-> t]
    ELSE SearchMove(game_, depth, moves, i, alpha, beta, s, best_move,
                    eval_recursive(t, make_move(game_, moves[i]), depth - 1,
                                   -beta, -alpha))

\* self.tt.insert(zh, CacheData{depth, score: s, best_move}); s
StoreResult(zh, depth, r) ==
    [score |-> r.s,
     tt |-> TTInsert(r.tt, zh, CacheData(depth, r.s, r.best_move))]

\* the search of a position whose entry, if any, is too shallow to be used
SearchPosition(t, game_, depth, alpha, beta, best_move) ==
    StoreResult(game_.zh, depth,
                SearchMoves(t, game_, depth,
                            sort_by_best_move(legal_moves(game_), best_move),
                            1, alpha, beta, alpha, best_move))

\* eval_recursive: the score returned and the table afterwards
eval_recursive(t, game_, depth, alpha, beta) ==
    IF depth = 0 THEN [score |-> evaluate_material(game_), tt |-> t]
    ELSE LET cached_data == TTGetResult(t, game_.zh)
         IN IF cached_data /= None /\ cached_data[1].depth >= depth
            THEN [score |-> cached_data[1].score, tt |-> TTGet(t, game_.zh)]
            ELSE SearchPosition(TTGet(t, game_.zh), game_, depth, alpha, beta,
                                IF cached_data /= None
                                THEN cached_data[1].best_move ELSE None)

RECURSIVE Deepen(_, _, _, _, _)
\* one iteration done: r is what eval_recursive returned for depth d
Deepened(game_, d, depth, scores, r) ==
    Deepen(r.tt, game_, d + 1, depth, Append(scores, r.score))

\* for d in 0..=depth: the scores the iterations returned, and the table
Deepen(t, game_, d, depth, scores) ==
    IF d > depth THEN [scores |-> scores, tt |-> t]
    ELSE Deepened(game_, d, depth, scores,
                  eval_recursive(t, game_, d, -I64_MAX, I64_MAX - 1))

RECURSIVE Reconstruct(_, _, _, _, _)
\* the closure of the map for the i-th move, zh the hash of the position
\* after it; a missing entry is the panic of expect()
ReconstructMove(t, game_, moves, i, out, zh) ==
    IF TTGetResult(t, zh) = None
    THEN [panic |-> "Top level move not present in TT after evaluation",
          results |-> out, tt |-> TTGet(t, zh)]
    ELSE Reconstruct(TTGet(t, zh), game_, moves, i + 1,
                     Append(out, <<moves[i], -TTGetResult(t, zh)[1].score>>))

\* the map over legal_moves() that reads each child's entry back
Reconstruct(t, game_, moves, i, out) ==
    IF i > Len(moves) THEN [panic |-> "", results |-> out, tt |-> t]
    ELSE ReconstructMove(t, game_, moves, i, out,
                         make_move(game_, moves[i]).zh)

\* what evaluate returns, given the outcome rec of the reconstruction
Report(depth, scores, rec) ==
    [depth |-> depth, scores |-> scores, panic |-> rec.panic,
     results |-> rec.results, tt |-> rec.tt]

\* the part of evaluate after the loop: deep is the outcome of the loop
ReadBack(game_, depth, deep) ==
    IF TTGetResult(deep.tt, game_.zh) = None
    THEN [depth |-> depth, scores |-> deep.scores, panic |-> "unwrap",
          results |-> << >>, tt |-> TTGet(deep.tt, game_.zh)]
    ELSE Report(depth, deep.scores,
                Reconstruct(TTGet(deep.tt, game_.zh), game_,
                            legal_moves(game_), 1, << >>))

\* AlphaBeta::evaluate: what it returns (or its panic), the value each
\* iteration returned, and the table afterwards
evaluate(t, game_, depth) ==
    CHOOSE out \in {ReadBack(game_, depth, deep) :
                       deep \in {Deepen(t, game_, 0, depth, << >>)}} : TRUE

(***************************************************************************)
(* Claims about make_move and legal_moves.                                 *)
(***************************************************************************)
\* C1: in every state reached from a loader-constructed position by legal
\* moves made with make_move, the incrementally maintained hash zh equals
\* the hash of the state recomputed from scratch.
C1_IncrementalHashEqualsRehash == game.zh = hash(game)

\* the rules of chess, stated on files and ranks: does a piece of `colour'
\* standing on `from' attack the square `target'
FileOf(n) == 7 - (n % 8)
RankOf(n) == n \div 8
Dist(a, b) == IF a < b THEN b - a ELSE a - b
Sign(a) == IF a > 0 THEN 1 ELSE IF a < 0 THEN -1 ELSE 0
Occupancy(state) == all(state.white.pieces) \cup all(state.black.pieces)

ClearBetween(state, from, target) ==
    LET df == FileOf(target) - FileOf(from)
        dr == RankOf(target) - RankOf(from)
        n == IF Dist(df, 0) > Dist(dr, 0) THEN Dist(df, 0) ELSE Dist(dr, 0)
    IN \A k \in 1 .. n - 1 :
          (RankOf(from) + k * Sign(dr)) * 8 + 7 - (FileOf(from) + k * Sign(df))
              \notin Occupancy(state)

PieceAttacks(state, colour, piece, from, target) ==
    LET df == Dist(FileOf(target), FileOf(from))
        dr == Dist(RankOf(target), RankOf(from))
        straight == (df = 0 \/ dr = 0) /\ df + dr > 0
                       /\ ClearBetween(state, from, target)
        diagonal == df = dr /\ df > 0 /\ ClearBetween(state, from, target)
    IN CASE piece = "King" -> df <= 1 /\ dr <= 1 /\ df + dr > 0
         [] piece = "Knight" -> (df = 1 /\ dr = 2) \/ (df = 2 /\ dr = 1)
         [] piece = "Pawn" ->
               df = 1 /\ RankOf(target) - RankOf(from)
                            = IF colour = "White" THEN 1 ELSE -1
         [] piece = "Rook" -> straight
         [] piece = "Bishop" -> diagonal
         [] piece = "Queen" -> straight \/ diagonal

\* the king of `colour' stands on a square a piece of the other colour attacks
KingAttacked(state, colour) ==
    \E k \in SideOf(state, colour).pieces.King :
        \E piece \in PieceKinds :
            \E from \in SideOf(state, other(colour)).pieces[piece] :
                PieceAttacks(state, other(colour), piece, from, k)

\* C10: no move legal_moves returns leaves the mover's own king attacked in
\* the position after it, and from 8/8/8/KPp4r/8/8/8/6k1 w - c6 the en
\* passant capture b5xc6 is not among the moves returned.
C10_NoMoveLeavesOwnKingAttacked ==
    /\ plies > 0 => ~KingAttacked(game, other(game.active_colour))
    /\ game = EnPassantPinPosition =>
          Normal("Pawn", At(1, 4), At(2, 5)) \notin MoveSet(legal_moves(game))

\* White has answered 8/8/8/KPp4r/8/8/8/6k1 w - c6 with b5-b6: the rook on
\* h5 now looks at the king on a5 through the black pawn on c5 only
C10_Witness ==
    /\ plies = 1
    /\ lastMove = Normal("Pawn", At(1, 4), At(1, 5))
    /\ game.white.pieces.King = {At(0, 4)}
    /\ game.black.pieces.Rook = {At(7, 4)}
    /\ game.black.pieces.Pawn = {At(2, 4)}

\* a piece of the side other than `colour' attacks the square `target'
Attacked(state, colour, target) ==
    \E piece \in PieceKinds :
        \E from \in SideOf(state, other(colour)).pieces[piece] :
            PieceAttacks(state, other(colour), piece, from, target)

\* the square on file f of the home rank of the side to move
HomeSquare(state, f) ==
    At(f, IF state.active_colour = "White" THEN 0 ELSE 7)

\* the squares on the files fs of the home rank are empty
HomeFree(state, fs) ==
    \A f \in fs : HomeSquare(state, f) \notin Occupancy(state)

\* no square on the files fs of the home rank is attacked by the opponent
HomeSafe(state, fs) ==
    \A f \in fs : ~Attacked(state, state.active_colour, HomeSquare(state, f))

\* C11: legal_moves contains Castle (LongCastle) exactly when the side to
\* move has the kingside (queenside) right, the squares between king and
\* rook are empty, the king is not in check and neither the square the king
\* passes nor the one it lands on is attacked; the b-file square may be
\* attacked.
C11_CastleExactlyWhenAllowed ==
    /\ Castle \in MoveSet(legal_moves(game))
          <=> /\ active_side(game).can_castle_kingside
              /\ HomeFree(game, {5, 6})
              /\ ~KingAttacked(game, game.active_colour)
              /\ HomeSafe(game, {5, 6})
    /\ LongCastle \in MoveSet(legal_moves(game))
          <=> /\ active_side(game).can_castle_queenside
              /\ HomeFree(game, {1, 2, 3})
              /\ ~KingAttacked(game, game.active_colour)
              /\ HomeSafe(game, {2, 3})

\* r3k2r/8/8/8/8/8/8/R3K2R after Rh1-g1 Ra8-b8: the rook on b8 attacks b1
\* and nothing else on the way of the white king, and White may castle long
C11_Witness ==
    /\ plies = 2
    /\ game.active_colour = "White"
    /\ At(1, 7) \in game.black.pieces.Rook
    /\ Attacked(game, "White", At(1, 0))
    /\ game.white.can_castle_queenside
    /\ LongCastle \in MoveSet(legal_moves(game))

\* C12: in every state reached by legal moves made with make_move, the
\* squares of White and of Black are disjoint, the six bitboards of each
\* side are pairwise disjoint, and each king bitboard has exactly one bit.
C12_BitboardsDisjointOneKing ==
    /\ all(game.white.pieces) \cap all(game.black.pieces) = {}
    /\ \A side \in {game.white, game.black} :
          /\ \A p, q \in PieceKinds :
                p /= q => side.pieces[p] \cap side.pieces[q] = {}
          /\ Cardinality(side.pieces.King) = 1

\* r3k2r/8/8/8/8/8/8/R3K2R after Ra1xa8: the white rook stands where the
\* black one stood
C12_Witness ==
    /\ plies = 1
    /\ lastMove = Normal("Rook", At(0, 0), At(0, 7))
    /\ game.white.pieces.Rook = {At(0, 7), At(7, 0)}
    /\ game.black.pieces.Rook = {At(7, 7)}

Flanks == {"queenside", "kingside"}
Colours == {"White", "Black"}

\* the right of `colour' to castle on `flank'
RightOf(state, colour, flank) ==
    IF flank = "queenside" THEN SideOf(state, colour).can_castle_queenside
    ELSE SideOf(state, colour).can_castle_kingside

\* the home corner of `colour' on `flank': a1, h1, a8 or h8
CornerOf(colour, flank) ==
    At(IF flank = "queenside" THEN 0 ELSE 7, IF colour = "White" THEN 0 ELSE 7)

\* the move mv, made in `state', takes the right of `colour' on `flank'
Revokes(state, mv, colour, flank) ==
    IF colour = state.active_colour
    THEN \/ mv.kind \in {"Castle", "LongCastle"}
         \/ mv.kind = "Normal" /\ mv.piece = "King"
         \/ mv.kind \in {"Normal", "Promotion"}
               /\ mv.src = CornerOf(colour, flank)
    ELSE /\ mv.kind \in {"Normal", "Promotion"}
         /\ mv.tgt = CornerOf(colour, flank)
         /\ mv.tgt \in all(SideOf(state, colour).pieces)

\* C13: make_move leaves a castling right false after a king move or castle
\* of its side, a move from its home corner or a capture on its home corner,
\* and unchanged otherwise; a right that is false is false ever after.
C13_CastlingRightsRevoked ==
    [][plies' = plies + 1 =>
          \A colour \in Colours : \A flank \in Flanks :
              /\ RightOf(game', colour, flank)
                    = IF Revokes(game, lastMove', colour, flank) THEN FALSE
                      ELSE RightOf(game, colour, flank)
              /\ ~RightOf(game, colour, flank)
                    => ~RightOf(game', colour, flank)]_vars

\* r3k2r/8/8/8/8/8/8/R3K2R after Ra1xa8: both queenside rights are gone,
\* both kingside rights are kept
C13_Witness ==
    /\ plies = 1
    /\ lastMove = Normal("Rook", At(0, 0), At(0, 7))
    /\ ~game.white.can_castle_queenside /\ game.white.can_castle_kingside
    /\ ~game.black.can_castle_queenside /\ game.black.can_castle_kingside

\* mv moves a pawn two squares along its file
DoublePush(mv) ==
    /\ mv.kind = "Normal" /\ mv.piece = "Pawn"
    /\ FileOf(mv.src) = FileOf(mv.tgt)
    /\ Dist(RankOf(mv.src), RankOf(mv.tgt)) = 2

\* the square between the two ends of a double push
PassedOver(mv) == At(FileOf(mv.src), (RankOf(mv.src) + RankOf(mv.tgt)) \div 2)

\* C14: after make_move, en_passant is Some(the square the pawn passed
\* over) exactly when the move was a two-square pawn advance and None after
\* every other move, so a target never survives a second ply.
C14_EnPassantOnlyAfterDoublePush ==
    [][plies' = plies + 1 =>
          game'.en_passant = IF DoublePush(lastMove') THEN Some(PassedOver(lastMove'))
                             ELSE None]_vars

\* 1n2k3/P7/8/8/3pP3/8/8/4K3 b - e3 after ...d4-d3, and the starting
\* position after e2-e4
C14_Witness ==
    /\ plies = 1
    /\ \/ /\ lastMove = Normal("Pawn", At(3, 3), At(3, 2))
          /\ At(4, 3) \in game.white.pieces.Pawn
          /\ game.en_passant = None
       \/ /\ lastMove = Normal("Pawn", At(4, 1), At(4, 3))
          /\ game.en_passant = Some(At(4, 2))

\* mv, made in `state', moves a pawn: a pawn step, a promotion or an
\* en-passant capture
PawnMove(mv) ==
    \/ mv.kind = "Promotion"
    \/ mv.kind = "Normal" /\ mv.piece = "Pawn"

\* mv, made in `state', lands on a piece of the side that is not to move
Captures(state, mv) ==
    /\ mv.kind \in {"Normal", "Promotion"}
    /\ mv.tgt \in all(other_side(state).pieces)

\* C15: after make_move the 50-move clock is 0 when the move was a pawn move
\* (promotion and en-passant capture included) or a capture, and the previous
\* clock plus one after a quiet piece move or a castle.  The clock is a u8:
\* a quiet move made at clock 255 leaves 0 (release build), not 256.
C15_FiftyMoveClock ==
    [][plies' = plies + 1 =>
          game'.fifty_move_clock
              = IF PawnMove(lastMove') \/ Captures(game, lastMove') THEN 0
                ELSE game.fifty_move_clock + 1]_vars

\* the sum of f[i] over i \in 1 .. n
RECURSIVE SumTo(_, _)
SumTo(f, n) == IF n = 0 THEN 0 ELSE f[n] + SumTo(f, n - 1)

\* the numbers of legal moves of the positions one move away from `state',
\* in the order of legal_moves
ChildMoveCounts(state) ==
    LET moves == legal_moves(state)
    IN [i \in 1 .. Len(moves) |-> Len(legal_moves(make_move(state, moves[i])))]

PawnRacePosition ==
    load_fen("Black",
             [EmptyPieces EXCEPT !.King = {At(0, 3)}],
             [EmptyPieces EXCEPT !.King = {At(7, 0)}, !.Pawn = {At(2, 3)}],
             {}, None)

\* 4k3/8/8/8/8/8/8/4K3 w - - 0 1
BareKingsPosition ==
    load_fen("White",
             [EmptyPieces EXCEPT !.King = {At(4, 0)}],
             [EmptyPieces EXCEPT !.King = {At(4, 7)}],
             {}, None)

\* 8/4k3/8/3p4/4P3/8/4K3/8 w - - 0 1
PawnDuelPosition ==
    load_fen("White",
             [EmptyPieces EXCEPT !.King = {At(4, 1)}, !.Pawn = {At(4, 3)}],
             [EmptyPieces EXCEPT !.King = {At(4, 6)}, !.Pawn = {At(3, 4)}],
             {}, None)

\* 8192 bytes: a table of 256 buckets
SearchTableBytes == 8192

InitAB ==
    /\ game \in {PawnRacePosition, BareKingsPosition, PawnDuelPosition}
    /\ plies = 0
    /\ lastMove = NoMove
    /\ tt = AlphaBetaNew(SearchTableBytes)
    /\ search = None
    /\ lastOp = NoOp
    /\ inserted = [k \in TTKeys |-> {}]
    /\ ttOps = 0
    /\ oracle = None
    /\ mcts = None

PlayMove ==
    /\ search = None
    /\ plies < MaxSearchPlies
    /\ \E mv \in MoveSet(legal_moves(game)) :
          /\ game' = make_move(game, mv)
          /\ lastMove' = mv
    /\ plies' = plies + 1
    /\ UNCHANGED <<tt, lastOp, inserted, ttOps, search, oracle, mcts>>

Evaluate(depth) ==
    /\ search = None
    /\ \E r \in {evaluate(tt, game, depth)} :
          /\ search' = Some([depth |-> r.depth, scores |-> r.scores,
                             panic |-> r.panic, results |-> r.results])
          /\ tt' = r.tt
    /\ UNCHANGED <<game, plies, lastMove, lastOp, inserted, ttOps, oracle, mcts>>

NextAB ==
    \/ PlayMove
    \/ \E depth \in 0 .. MaxDepth : Evaluate(depth)

SpecAB == InitAB /\ [][NextAB]_vars

(***************************************************************************)
(* Claims about the search.                                                *)
(***************************************************************************)
RECURSIVE negamax(_, _, _, _)
RECURSIVE NegamaxMoves(_, _, _, _, _, _, _)

\* the same fail-hard negamax with no table at all
NegamaxMoves(game_, d, moves, i, alpha, beta, s) ==
    IF i > Len(moves) THEN s
    ELSE LET v == -negamax(make_move(game_, moves[i]), d - 1, -beta, -alpha)
         IN IF v >= beta THEN beta
            ELSE IF v > alpha
                 THEN NegamaxMoves(game_, d, moves, i + 1, v, beta, v)
                 ELSE NegamaxMoves(game_, d, moves, i + 1, alpha, beta, s)

negamax(game_, d, alpha, beta) ==
    IF d = 0 THEN evaluate_material(game_)
    ELSE NegamaxMoves(game_, d, legal_moves(game_), 1, alpha, beta, alpha)

\* the value of a position searched to depth d with the full window
NegamaxValue(game_, d) == negamax(game_, d, -I64_MAX, I64_MAX - 1)

\* evaluate has been called and has returned, without a panic
Searched == search /= None /\ search[1].panic = ""
RootScore == search[1].scores[search[1].depth + 1]

\* C7: for any position and depth >= 1, the root score the search with its
\* transposition table returns equals the root score of the same-depth
\* negamax alpha-beta search run with no table.
C7_TableDoesNotChangeRootScore ==
    (Searched /\ search[1].depth >= 1) =>
        RootScore = NegamaxValue(game, search[1].depth)

\* C8: after evaluate(game, depth) with depth >= 1 on a position with legal
\* moves, the table holds at the root key an entry of the final iteration:
\* its depth is the requested depth, its best_move is a legal move of the
\* root and its score is the root score of that iteration.
C8_RootEntryIsFinalIteration ==
    (Searched /\ search[1].depth >= 1 /\ legal_moves(game) /= << >>) =>
        LET root == TTGetResult(tt, game.zh)
        IN /\ root /= None
           /\ root[1].depth = search[1].depth
           /\ root[1].best_move /= None
           /\ root[1].best_move[1] \in MoveSet(legal_moves(game))
           /\ root[1].score = RootScore

\* C9: the score evaluate(game, depth) reports for a legal root move m is
\* the negation of the negamax value of the position after m searched to
\* depth - 1.
C9_ReportedScoreIsNegamaxOfChild ==
    (Searched /\ search[1].depth >= 1) =>
        \A i \in DOMAIN search[1].results :
            search[1].results[i][2] =
                -NegamaxValue(make_move(game, search[1].results[i][1]),
                              search[1].depth - 1)

\* C24: for a position with legal moves and a depth >= 1, evaluate returns
\* without a panic: neither the unwrap of the root's entry nor the expect of
\* the entry of a position after a root move fails.
C24_EvaluateNeverAborts ==
    (search /= None /\ search[1].depth >= 1 /\ legal_moves(game) /= << >>) =>
        search[1].panic = ""

(***************************************************************************)
(* The calls of eval_recursive that evaluate makes (minimax.rs:47-116).    *)
(* A state is one call: game is the position it is made on, tt the table   *)
(* when it is made, search its arguments and what it returned and stored.  *)
(***************************************************************************)
MaxCallDepth == 3

\* the best move of the entry the call finds for its position, if any
CachedBestMove(t, game_) ==
    IF TTGetResult(t, game_.zh) /= None
    THEN TTGetResult(t, game_.zh)[1].best_move ELSE None

\* does the call return the score of the entry it finds, or the evaluation
UsesCache(t, game_, depth) ==
    \/ depth = 0
    \/ /\ TTGetResult(t, game_.zh) /= None
       /\ TTGetResult(t, game_.zh)[1].depth >= depth

\* the loop of the call over the first n of its ordered moves
SearchPrefix(t, game_, depth, alpha, beta, n) ==
    SearchMoves(TTGet(t, game_.zh), game_, depth,
                SubSeq(sort_by_best_move(legal_moves(game_),
                                         CachedBestMove(t, game_)), 1, n),
                1, alpha, beta, alpha, CachedBestMove(t, game_))

\* the call eval_recursive(game_, depth, alpha, beta) on the table t: its
\* arguments, whether it ran the loop, the score it returned, the best move
\* of the loop, and the entry the table holds for the position afterwards
CallRecord(t, game_, depth, alpha, beta) ==
    [depth |-> depth, alpha |-> alpha, beta |-> beta,
     searched |-> ~UsesCache(t, game_, depth),
     score |-> eval_recursive(t, game_, depth, alpha, beta).score,
     best_move |->
         IF UsesCache(t, game_, depth) THEN None
         ELSE SearchPrefix(t, game_, depth, alpha, beta,
                           Len(legal_moves(game_))).best_move,
     stored |->
         TTGetResult(eval_recursive(t, game_, depth, alpha, beta).tt,
                     game_.zh)]

InitCalls ==
    /\ game \in {PawnRacePosition, BareKingsPosition, PawnDuelPosition}
    /\ plies = 0
    /\ lastMove = NoMove
    /\ tt = AlphaBetaNew(SearchTableBytes)
    /\ search = None
    /\ lastOp = NoOp
    /\ inserted = [k \in TTKeys |-> {}]
    /\ ttOps = 0
    /\ oracle = None
    /\ mcts = None

\* a loop of evaluate that hands eval_recursive the whole range of i64
RootCall_WholeRange(d) ==
    /\ search = None
    /\ \E t \in {Deepen(tt, game, 0, d - 1, << >>).tt} :
          /\ tt' = t
          /\ search' = Some(CallRecord(t, game, d, -I64_MAX - 1, I64_MAX))
    /\ UNCHANGED <<game, plies, lastMove, lastOp, inserted, ttOps, oracle, mcts>>

\* the call of iteration d of the loop of evaluate, made on the table the
\* iterations before it left
RootCall(d) ==
    /\ search = None
    /\ \E t \in {Deepen(tt, game, 0, d - 1, << >>).tt} :
          /\ tt' = t
          /\ search' = Some(CallRecord(t, game, d, -I64_MAX, I64_MAX - 1))
    /\ UNCHANGED <<game, plies, lastMove, lastOp, inserted, ttOps, oracle, mcts>>

\* the recursive call the loop of the current call makes for its i-th move:
\* the loop has run over the moves before it without a cutoff, raising alpha
\* to p.s and leaving the table p.tt
ChildCall(i) ==
    /\ search /= None
    /\ search[1].searched
    /\ \E p \in {SearchPrefix(tt, game, search[1].depth, search[1].alpha,
                               search[1].beta, i - 1)} :
          /\ p.s < search[1].beta
          /\ \E m \in {sort_by_best_move(legal_moves(game),
                                         CachedBestMove(tt, game))[i]} :
                /\ game' = make_move(game, m)
                /\ lastMove' = m
                /\ search' = Some(CallRecord(p.tt, make_move(game, m),
                                             search[1].depth - 1,
                                             -search[1].beta, -p.s))
          /\ tt' = p.tt
    /\ plies' = plies + 1
    /\ UNCHANGED <<lastOp, inserted, ttOps, oracle, mcts>>

NextCalls ==
    \/ \E d \in 1 .. MaxCallDepth : RootCall(d)
    \/ \E i \in 1 .. Len(legal_moves(game)) : ChildCall(i)

SpecCalls == InitCalls /\ [][NextCalls]_vars

\* C25: a call at depth >= 1 that finds no usable entry returns a value
\* within the window it was called with; when a move's value reached beta it
\* returns beta and the entry stored for its position has that move as best
\* move, and when alpha was raised the entry stored has as best move the
\* move that last raised it.
C25_FailHardStoresBestMove ==
    (search /= None /\ search[1].searched) =>
        /\ search[1].alpha <= search[1].score
        /\ search[1].score <= search[1].beta
        /\ search[1].score > search[1].alpha =>
              /\ search[1].stored /= None
              /\ search[1].stored[1].best_move = search[1].best_move
              /\ search[1].stored[1].score = search[1].score

ROOK_MAGIC == <<
    <<<<\hb76a, \h2db6, \hb517, \h96a8>>, 13>>,
    <<<<\h78c0, \h03e0, \h0710, \h0142>>, 11>>,
    <<<<\hd6b9, \hfe01, \hf4dd, \h9d9a>>, 12>>,
    <<<<\h57f0, \h0097, \h27ef, \hfb29>>, 12>>,
    <<<<\hecff, \hf1a1, \hc80d, \he300>>, 12>>,
    <<<<\h34e0, \h0f12, \h1491, \hfbf8>>, 12>>,
    <<<<\hacc0, \h0dc5, \h9341, \h8156>>, 12>>,
    <<<<\h5000, \h959a, \h4954, \h52d5>>, 13>>,
    <<<<\h71ba, \h8007, \h6182, \h400c>>, 11>>,
    <<<<\h9daf, \h0027, \h4000, \h8705>>, 10>>,
    <<<<\h5405, \h736e, \h66d8, \h905a>>, 11>>,
    <<<<\h9cd2, \h1642, \hf7a2, \hbfc0>>, 11>>,
    <<<<\hced6, \h0e53, \h8fa9, \hf17d>>, 11>>,
    <<<<\hc77c, \h8db9, \h5d48, \h25eb>>, 11>>,
    <<<<\h9252, \h008d, \hfff7, \hff24>>, 10>>,
    <<<<\ha07a, \h0001, \h8403, \h0e62>>, 11>>,
    <<<<\h563b, \he107, \hf08c, \h4dff>>, 12>>,
    <<<<\h715e, \h8d17, \h33ce, \h20b7>>, 11>>,
    <<<<\h78f5, \h8b8e, \h37fe, \hd5aa>>, 11>>,
    <<<<\h32cd, \hcd20, \ha50d, \h20e3>>, 11>>,
    <<<<\h159f, \h50f0, \hf10e, \h8361>>, 11>>,
    <<<<\h6706, \h7200, \h0906, \h00aa>>, 11>>,
    <<<<\h734b, \h5c00, \h0330, \h182e>>, 10>>,
    <<<<\h4e10, \h7200, \h1581, \hd70c>>, 11>>,
    <<<<\h7d7d, \ha4e3, \h8bc5, \he6cd>>, 12>>,
    <<<<\haf59, \h0eba, \h2019, \h56f1>>, 11>>,
    <<<<\hde6b, \hb301, \h0020, \h0541>>, 10>>,
    <<<<\h1771, \h19e1, \hc717, \h18d7>>, 11>>,
    <<<<\hb42c, \h768a, \h6fd7, \h2590>>, 11>>,
    <<<<\h41bd, \h7a7d, \h82d0, \hdb0b>>, 11>>,
    <<<<\hcccf, \ha814, \h002a, \ha710>>, 10>>,
    <<<<\h5bf2, \hf65a, \h0000, \he6ac>>, 11>>,
    <<<<\hf0d6, \h9c97, \h632e, \hcb07>>, 12>>,
    <<<<\h1a75, \h0980, \hc200, \h2203>>, 10>>,
    <<<<\he0dc, \hd44e, \hf10f, \h8402>>, 11>>,
    <<<<\h2684, \h08f8, \h83f8, \hb000>>, 11>>,
    <<<<\h45b5, \h85a0, \h5f4f, \h4f7c>>, 11>>,
    <<<<\h9429, \h2c7d, \hfab7, \hed48>>, 11>>,
    <<<<\h09c5, \h8217, \h2c00, \h2890>>, 10>>,
    <<<<\h7e0e, \ha8a7, \h2e00, \h05a4>>, 11>>,
    <<<<\h6ba0, \h8940, \h03a6, \h8006>>, 11>>,
    <<<<\hc6fe, \h9a9f, \h9d5e, \h0e9b>>, 11>>,
    <<<<\he1b8, \hd0a5, \hcc2f, \h59e3>>, 11>>,
    <<<<\hc62f, \hc200, \h60da, \h0010>>, 10>>,
    <<<<\h2fe7, \h405d, \hcce8, \hbf20>>, 11>>,
    <<<<\hefb5, \hffdb, \haedd, \hfff0>>, 11>>,
    <<<<\h4009, \he50a, \h106c, \h0058>>, 10>>,
    <<<<\h9a72, \h3b2b, \h745a, \h0004>>, 11>>,
    <<<<\h75ff, \hff5e, \h85b9, \h4450>>, 11>>,
    <<<<\hf67f, \hffba, \h7e7e, \h12f0>>, 10>>,
    <<<<\h1eae, \hd420, \h0109, \hc100>>, 10>>,
    <<<<\h840b, \ha100, \hf001, \h4b00>>, 10>>,
    <<<<\h95ff, \hff77, \h515d, \h5200>>, 10>>,
    <<<<\h2127, \hff4b, \hc841, \h5110>>, 11>>,
    <<<<\he7ea, \hf012, \h07b8, \h1c00>>, 10>>,
    <<<<\haa18, \he841, \h1794, \h0600>>, 11>>,
    <<<<\h66ff, \hfee6, \h89ce, \h02fe>>, 12>>,
    <<<<\h1bff, \hfce8, \h7017, \hd1ca>>, 11>>,
    <<<<\ha565, \hffb3, \he00d, \h80be>>, 11>>,
    <<<<\h947f, \hff08, \h3092, \h008e>>, 11>>,
    <<<<\h353f, \hffae, \he5ff, \hbdba>>, 11>>,
    <<<<\h3a36, \h0008, \h241f, \h307a>>, 11>>,
    <<<<\h56bc, \h6b90, \h0218, \h3114>>, 11>>,
    <<<<\he7ce, \h2700, \h8418, \h2c36>>, 12>>
>>

\* generated::BISHOP_MAGIC
BISHOP_MAGIC == <<
    <<<<\hc9e0, \hb32f, \h7efb, \h37ff>>, 6>>,
    <<<<\hbcc5, \hefc5, \h767f, \hf79a>>, 4>>,
    <<<<\hbdf0, \h44b2, \h2bf6, \h8725>>, 5>>,
    <<<<\hcf78, \h25ef, \hcd92, \h9f29>>, 5>>,
    <<<<\h798c, \h0c20, \h6faf, \hba0b>>, 5>>,
    <<<<\hdd22, \h0a8f, \hfcf4, \hbe24>>, 5>>,
    <<<<\h9c50, \ha28a, \h537f, \h9f27>>, 4>>,
    <<<<\h378b, \hba1d, \h8ef5, \hffe6>>, 5>>,
    <<<<\h85fa, \hadad, \h9b78, \hefff>>, 4>>,
    <<<<\h3be6, \h0902, \h9afd, \h97f6>>, 4>>,
    <<<<\hf9fd, \hd869, \hffce, \h07ce>>, 5>>,
    <<<<\h942a, \h3114, \h0581, \h91bf>>, 5>>,
    <<<<\hd9b8, \h7c14, \h2062, \h9674>>, 5>>,
    <<<<\he238, \hde02, \h301c, \h578f>>, 5>>,
    <<<<\h0464, \h4b25, \h1bf8, \h7f8a>>, 4>>,
    <<<<\h44e2, \hb6d5, \h376d, \hfec6>>, 4>>,
    <<<<\h8610, \h7b60, \h600e, \h779c>>, 5>>,
    <<<<\he1e6, \h1142, \h6521, \h77fd>>, 5>>,
    <<<<\h52c8, \h02b0, \h0e85, \ha209>>, 7>>,
    <<<<\hf878, \h0109, \h0453, \h0057>>, 7>>,
    <<<<\hb6a7, \h00e0, \h9040, \h2215>>, 7>>,
    <<<<\h1396, \h001a, \h4113, \ha032>>, 7>>,
    <<<<\hed17, \h054a, \h14ff, \h60dc>>, 5>>,
    <<<<\h4907, \h041d, \hcb27, \hb00c>>, 5>>,
    <<<<\h7810, \hc023, \h7618, \hb1aa>>, 5>>,
    <<<<\hf1ff, \h5e89, \h387e, \h3c06>>, 5>>,
    <<<<\h382b, \h7002, \h4806, \h87e1>>, 7>>,
    <<<<\h718d, \ha08c, \hd046, \hc6b6>>, 10>>,
    <<<<\hd3af, \h7877, \hc05e, \h2061>>, 10>>,
    <<<<\hbd7f, \h8500, \h4e00, \hd206>>, 7>>,
    <<<<\hdfa5, \h0c18, \h3452, \h180e>>, 5>>,
    <<<<\h1496, \h034c, \hf4e1, \h0825>>, 5>>,
    <<<<\hf0a9, \h20a0, \h36d0, \h349f>>, 5>>,
    <<<<\h7476, \h2fb0, \hab17, \h0610>>, 5>>,
    <<<<\he5d1, \hb248, \h05d0, \h0783>>, 7>>,
    <<<<\h58cd, \hffaa, \h517f, \hea00>>, 10>>,
    <<<<\h78a8, \hee38, \he395, \h4c79>>, 10>>,
    <<<<\h3a4d, \h0b52, \h00b5, \h010d>>, 7>>,
    <<<<\h0484, \h158a, \h09c1, \h980d>>, 5>>,
    <<<<\h436f, \h2606, \h823a, \h04ce>>, 5>>,
    <<<<\hce3d, \hc3db, \ha34c, \hc051>>, 5>>,
    <<<<\h98af, \hf3e5, \h953b, \h8829>>, 5>>,
    <<<<\h9523, \hff97, \h1001, \h5901>>, 7>>,
    <<<<\h7a14, \had60, \h1800, \h9d05>>, 7>>,
    <<<<\h1be0, \h7a46, \h0201, \h3c10>>, 7>>,
    <<<<\h06fe, \h2205, \h4d02, \h0201>>, 7>>,
    <<<<\hf57e, \he9cc, \he33a, \h0942>>, 5>>,
    <<<<\h741f, \hb582, \h6e5d, \h0a00>>, 4>>,
    <<<<\h84bf, \hf899, \h13cd, \h4d69>>, 4>>,
    <<<<\h108f, \hfc98, \hc4cd, \h2780>>, 4>>,
    <<<<\h66b9, \hfff6, \h1ef0, \h84b3>>, 5>>,
    <<<<\he5ff, \h84ac, \h2088, \h1d3a>>, 5>>,
    <<<<\h86b5, \hdfd0, \h6e02, \h17c3>>, 5>>,
    <<<<\he9bc, \h3d20, \h2bf3, \hc905>>, 5>>,
    <<<<\hc9ff, \h7491, \hdcd8, \hcf7e>>, 4>>,
    <<<<\ha0bf, \he9f5, \h1452, \h4727>>, 4>>,
    <<<<\hbf47, \hfbee, \haa79, \h39fe>>, 6>>,
    <<<<\h5081, \h57fe, \h864b, \h7938>>, 4>>,
    <<<<\h2bb5, \h2b32, \hea01, \h1010>>, 5>>,
    <<<<\h168c, \hd40c, \h8708, \h5806>>, 5>>,
    <<<<\ha7e9, \h27ac, \ha830, \h6c0d>>, 5>>,
    <<<<\hfcf6, \hd6a8, \h710f, \h2a01>>, 5>>,
    <<<<\h57ed, \h7fb5, \h19d8, \ha0ae>>, 4>>,
    <<<<\hadff, \hd1e9, \h127f, \h66b4>>, 5>>
>>

RECURSIVE Line(_, _)
\* the coordinates Line::new(start, shift) yields until next() is None: a
\* shift that leaves the word gives 0, whose trailing_zeros is 64
Line(start, shift) ==
    LET tz == IF start + shift \in 0 .. 63 THEN start + shift ELSE 64
        diff(x, y) == IF x > y THEN x - y ELSE y - x
    IN IF diff(start % 8, tz % 8) + diff(start \div 8, tz \div 8) > 3 THEN << >>
       ELSE IF tz = 64 THEN << >>
       ELSE <<tz>> \o Line(tz, shift)

\* every coordinate of the line but the last
line_mask(start, shift) ==
    {Line(start, shift)[i] : i \in 1 .. Len(Line(start, shift)) - 1}

rook_mask(sq) ==
    line_mask(sq, 1) \cup line_mask(sq, -1) \cup line_mask(sq, 8)
        \cup line_mask(sq, -8)

bishop_mask(sq) ==
    line_mask(sq, 9) \cup line_mask(sq, -9) \cup line_mask(sq, 7)
        \cup line_mask(sq, -7)

\* the coordinates of a line up to and including the first occupied one
SlideMoves(line, occupancy) ==
    {line[i] : i \in {i \in 1 .. Len(line) : \A j \in 1 .. i - 1 : line[j] \notin occupancy}}

rook_moves(start, occupancy) ==
    UNION {SlideMoves(Line(start, dir), occupancy) : dir \in {1, 8, -1, -8}}

bishop_moves(start, occupancy) ==
    UNION {SlideMoves(Line(start, dir), occupancy) : dir \in {7, 9, -7, -9}}

\* every subset of the mask, in the order the doubling loop pushes them: the
\* k-th board holds the j-th lowest bit of the mask when bit j of k is set
boards_for_mask(mask) ==
    LET bit(j) == CHOOSE x \in mask : Cardinality({y \in mask : y < x}) = j
    IN [k \in 1 .. 2^Cardinality(mask) |->
           {bit(j) : j \in {j \in 0 .. Cardinality(mask) - 1 : ((k - 1) \div 2^j) % 2 = 1}}]

RECURSIVE LimbSums(_, _)
\* per 16-bit limb, the sum over the bits p of bb of magic << p, carries not
\* yet taken
LimbSums(magic, bb) ==
    IF bb = {} THEN <<0, 0, 0, 0>>
    ELSE LET p == CHOOSE x \in bb : TRUE
             limb(j) ==
                 (IF j + (p \div 16) <= 4
                  THEN (magic[j + (p \div 16)] * 2^(p % 16)) % 65536 ELSE 0)
                   + (IF j + (p \div 16) + 1 <= 4
                      THEN magic[j + (p \div 16) + 1] \div 2^(16 - (p % 16)) ELSE 0)
         IN [j \in 1 .. 4 |-> limb(j) + LimbSums(magic, bb \ {p})[j]]

\* an index taken of the whole occupancy, the mask forgotten
index_Unmasked(bb, mask, magic, shift) ==
    LET s == LimbSums(magic, bb)
    IN ((s[1] + ((s[2] + ((s[3] + (s[4] \div 65536)) \div 65536)) \div 65536))
           % 65536) \div 2^(shift - 48)

\* Magic::index, ((bb & mask).wrapping_mul(magic) >> shift) for a shift of
\* 48 or more: the top 64 - shift bits of the most significant limb
index(bb, mask, magic, shift) ==
    LET s == LimbSums(magic, bb \cap mask)
    IN ((s[1] + ((s[2] + ((s[3] + (s[4] \div 65536)) \div 65536)) \div 65536))
           % 65536) \div 2^(shift - 48)

\* the moves for every board of the mask, in the order of boards_for_mask
\* movegen is the name of the function handed over
generate_moves(sq, mask, movegen) ==
    LET boards == boards_for_mask(mask)
    IN [k \in 1 .. Len(boards) |->
           IF movegen = "rook_moves" THEN rook_moves(sq, boards[k])
           ELSE bishop_moves(sq, boards[k])]

\* one round of the loop over occupancies of Magic::generate: the moves go
\* to table[ix] unless other moves are there
FillOne(acc, ix, moves) ==
    IF acc.table[ix] /= {} /\ acc.table[ix] /= moves
    THEN [acc EXCEPT !.success = FALSE]
    ELSE [acc EXCEPT !.table[ix] = moves]

RECURSIVE FillTable(_, _, _, _, _, _, _, _)
\* the loop over occupancies lo..hi of Magic::generate, which breaks at the
\* first clash: acc holds the table and whether no clash was met
FillTable(occupancies, all_moves, mask, magic, shift, lo, hi, acc) ==
    IF ~acc.success THEN acc
    ELSE IF lo = hi
    THEN FillOne(acc, index(occupancies[lo], mask, magic, shift), all_moves[lo])
    ELSE FillTable(occupancies, all_moves, mask, magic, shift,
                   (lo + hi) \div 2 + 1, hi,
                   FillTable(occupancies, all_moves, mask, magic, shift,
                             lo, (lo + hi) \div 2, acc))

RECURSIVE GenerateFrom(_, _, _, _, _, _)
\* the end of one round of the loop over widths of Magic::generate
GenerateStep(filled, magic, mask, occupancies, all_moves, max_size, width) ==
    IF filled.success
    THEN Some([table |-> filled.table, mask |-> mask, magic |-> magic,
               shift |-> 64 - width])
    ELSE GenerateFrom(magic, mask, occupancies, all_moves, max_size, width + 1)

\* the loop over widths of Magic::generate, from the given width on
GenerateFrom(magic, mask, occupancies, all_moves, max_size, width) ==
    IF 2^width > max_size THEN None
    ELSE GenerateStep(FillTable(occupancies, all_moves, mask, magic, 64 - width,
                                1, Len(occupancies),
                                [table |-> [i \in 0 .. 2^width - 1 |-> {}],
                                 success |-> TRUE]),
                      magic, mask, occupancies, all_moves, max_size, width)

Magic_generate(magic, mask, all_moves, max_size) ==
    GenerateFrom(magic, mask, boards_for_mask(mask), all_moves, max_size, 4)

lookup(m, bb) == m.table[index(bb, m.mask, m.magic, m.shift)]

\* the Magic that MagicBitBoards::generate pushes for a piece on square c:
\* None is where the expect panics
MagicFor(piece, c) ==
    IF piece = "Rook"
    THEN Magic_generate(ROOK_MAGIC[c + 1][1], rook_mask(c),
                        generate_moves(c, rook_mask(c), "rook_moves"),
                        2^ROOK_MAGIC[c + 1][2])
    ELSE Magic_generate(BISHOP_MAGIC[c + 1][1], bishop_mask(c),
                        generate_moves(c, bishop_mask(c), "bishop_moves"),
                        2^BISHOP_MAGIC[c + 1][2])

(***************************************************************************)
(* An oracle: the Magic that MagicBitBoards::default() holds for one piece *)
(* on one square is built, and one occupancy is looked up in it.  A lookup *)
(* leaves the Magic as it is, so one lookup after each construction shows  *)
(* every lookup.                                                           *)
(***************************************************************************)
\* the occupancies looked up: the empty and the full board, one blocker, one
\* gap, and two blockers facing each other across the centre
Occupancies ==
    {{}, 0 .. 63} \cup {{b} : b \in 0 .. 63} \cup {(0 .. 63) \ {b} : b \in 0 .. 63}
        \cup {{b, 63 - b} : b \in 0 .. 63}

InitMagic ==
    /\ \E piece \in {"Rook", "Bishop"}, c \in 0 .. 63 :
          oracle = [piece |-> piece, coord |-> c, magic |-> MagicFor(piece, c),
                    occupancy |-> None, moves |-> None]
    /\ tt = None
    /\ lastOp = NoOp
    /\ inserted = [k \in TTKeys |-> {}]
    /\ ttOps = 0
    /\ game = None
    /\ plies = 0
    /\ lastMove = NoMove
    /\ search = None
    /\ mcts = None

Lookup ==
    /\ oracle.magic /= None
    /\ oracle.occupancy = None
    /\ \E bb \in Occupancies :
          oracle' = [oracle EXCEPT !.occupancy = Some(bb),
                                   !.moves = Some(lookup(oracle.magic[1], bb))]
    /\ UNCHANGED <<tt, lastOp, inserted, ttOps, game, plies, lastMove, search, mcts>>

NextMagic == Lookup

SpecMagic == InitMagic /\ [][NextMagic]_vars

(***************************************************************************)
(* Claims about the magic bitboards.                                       *)
(***************************************************************************)
\* the squares a rook or bishop on `from' reaches on a board with the given
\* occupancy: those on a common rank or file (rook) or diagonal (bishop) with
\* no occupied square strictly between
Reach(piece, from, occupancy) ==
    LET df(t) == (t % 8) - (from % 8)
        dr(t) == (t \div 8) - (from \div 8)
        aligned(t) == IF piece = "Rook" THEN df(t) = 0 \/ dr(t) = 0
                      ELSE Dist(df(t), 0) = Dist(dr(t), 0)
        steps(t) == IF Dist(df(t), 0) > Dist(dr(t), 0) THEN Dist(df(t), 0)
                    ELSE Dist(dr(t), 0)
    IN {t \in (0 .. 63) \ {from} :
           /\ aligned(t)
           /\ \A k \in 1 .. steps(t) - 1 :
                 from + k * (8 * Sign(dr(t)) + Sign(df(t))) \notin occupancy}

\* rook_moves or bishop_moves, as the piece has it
RayWalk(piece, start, occupancy) ==
    IF piece = "Rook" THEN rook_moves(start, occupancy)
    ELSE bishop_moves(start, occupancy)

\* C17: for every square and occupancy the lookup in the Magic of
\* MagicBitBoards::default() equals rook_moves or bishop_moves, the walk
\* along each ray up to and including the first blocker, and the
\* construction with the baked-in magics never fails.
C17_MagicLookupEqualsRayWalk ==
    /\ oracle.magic /= None
    /\ oracle.occupancy = None
          => \A k \in DOMAIN boards_for_mask(oracle.magic[1].mask) :
                lookup(oracle.magic[1], boards_for_mask(oracle.magic[1].mask)[k])
                    = RayWalk(oracle.piece, oracle.coord,
                              boards_for_mask(oracle.magic[1].mask)[k])
    /\ oracle.occupancy /= None
          => /\ oracle.moves[1]
                   = RayWalk(oracle.piece, oracle.coord, oracle.occupancy[1])
             /\ oracle.moves[1]
                   = Reach(oracle.piece, oracle.coord, oracle.occupancy[1])

\* a rook on bit 27 with blockers on bits 28 and 35: the lookup stops on
\* both and runs to the edge the other two ways
C17_Witness ==
    /\ oracle.piece = "Rook" /\ oracle.coord = 27
    /\ oracle.occupancy = Some({28, 35})
    /\ oracle.moves = Some({3, 11, 19, 24, 25, 26, 28, 35})

(***************************************************************************)
(* Monte-Carlo tree search (chess-ai/src/montecarlo.rs) over the game of   *)
(* chess-ai/src/chess.rs.  The tree is an arena: a node is its index in    *)
(* `nodes', the root is 1, and an Rc<RefCell<Node>> is the index.  wins is *)
(* kept in halves (wins2 = 2 * wins): wins only grows by 1.0 and 0.5 and   *)
(* simulations by 1.0, which f32 holds exactly.                            *)
(***************************************************************************)
Ongoing == <<"Ongoing">>
Finished(res) == <<"Finished", res>>

GameResult_reverse(res) ==
    CASE res = "Win" -> "Loss"
      [] res = "Loss" -> "Win"
      [] res = "Draw" -> "Draw"

Node_root ==
    [wins2 |-> 0, simulations |-> 0, children |-> << >>, parent |-> None,
     mv |-> None]

child_of(parent, mv) ==
    [wins2 |-> 0, simulations |-> 0, children |-> << >>,
     parent |-> Some(parent), mv |-> Some(mv)]

is_in_check(state) ==
    square_under_attack(BoardOf(state),
                        KingCoord(state, state.active_colour),
                        state.active_colour)

\* a game_state that looks at the 50-move clock only
game_state_ClockOnly(state) ==
    IF state.fifty_move_clock >= 50 THEN Finished("Draw") ELSE Ongoing

game_state(state) ==
    IF Len(legal_moves(state)) = 0
    THEN IF is_in_check(state) THEN Finished("Loss") ELSE Finished("Draw")
    ELSE IF state.fifty_move_clock >= 50 THEN Finished("Draw")
    ELSE Ongoing

active_player(state) == IF state.active_colour = "White" THEN "One" ELSE "Two"

MCTS_new(initial_state) ==
    [initial_state |-> initial_state, nodes |-> <<Node_root>>, calls |-> 0,
     leaf |-> None, result |-> None, best |-> None]

\* the orders in which a HashMap may hand out its keys
IterationOrders(keys) ==
    {order \in [1 .. Cardinality(keys) -> keys] :
        \A i, j \in DOMAIN order : order[i] = order[j] => i = j}

\* the fold of best_move and select_child_uct over the entries in one order:
\* acc is (max, best), replaced by an entry whose score is above max
RECURSIVE FoldMax(_, _, _, _)
FoldMax(order, score, i, acc) ==
    IF i > Len(order) THEN acc
    ELSE FoldMax(order, score, i + 1,
                 IF acc[1] = None \/ score[order[i]] > acc[1][1]
                 THEN <<Some(score[order[i]]), Some(order[i])>>
                 ELSE acc)

\* ln(n) in units of 10^-8, n = 1 .. 5
LN == <<0, 69314718, 109861229, 138629436, 160943791>>

RECURSIVE ISqrtIn(_, _, _)
ISqrtIn(x, lo, hi) ==
    IF lo = hi THEN lo
    ELSE IF ((lo + hi + 1) \div 2) * ((lo + hi + 1) \div 2) <= x
         THEN ISqrtIn(x, (lo + hi + 1) \div 2, hi)
         ELSE ISqrtIn(x, lo, (lo + hi + 1) \div 2 - 1)

\* wins / simulations + sqrt(2) * sqrt(ln(parent_simulations) / simulations)
\* in units of 10^-4: for parent_simulations <= 5 two values compare as
\* the f32 values do
uct_formula(wins2, simulations, parent_simulations) ==
    (5000 * wins2) \div simulations
        + ISqrtIn((2 * LN[parent_simulations]) \div simulations, 0, 20000)

\* the children select_child_uct may return: one per iteration order of
\* the child map; none when the node has no children
select_child_uct(nodes, node) ==
    {FoldMax(order,
             [mv \in DOMAIN nodes[node].children |->
                 uct_formula(nodes[nodes[node].children[mv]].wins2,
                             nodes[nodes[node].children[mv]].simulations,
                             nodes[node].simulations)],
             1, <<None, None>>)[2] :
        order \in IterationOrders(DOMAIN nodes[node].children)}

\* the unexplored branch of traverse: a child for one of the moves
Expand(nodes, node, state, unexplored_moves) ==
    {[nodes |-> Append([nodes EXCEPT ![node].children
                                         = (mv :> Len(nodes) + 1) @@ @],
                       child_of(node, mv)),
      leaf |-> Len(nodes) + 1,
      state |-> make_move(state, mv)] : mv \in unexplored_moves}

\* the outcomes of traverse(node, state): the tree, the leaf and its state
RECURSIVE traverse(_, _, _)
Descend(nodes, node, state, selected) ==
    UNION {IF best = None
           THEN {[nodes |-> nodes, leaf |-> node, state |-> state]}
           ELSE traverse(nodes, nodes[node].children[best[1]],
                         make_move(state, best[1])) : best \in selected}

TraverseFrom(nodes, node, state, unexplored_moves) ==
    IF Cardinality(unexplored_moves) > 0
    THEN Expand(nodes, node, state, unexplored_moves)
    ELSE Descend(nodes, node, state, select_child_uct(nodes, node))

traverse(nodes, node, state) ==
    TraverseFrom(nodes, node, state,
                 {mv \in MoveSet(legal_moves(state)) :
                     mv \notin DOMAIN nodes[node].children})

\* the loop of rollout: the positions it may end on, over the random moves,
\* each with its game state
RECURSIVE RolloutLoop(_, _)
RolloutLoop(rollout_state, state_of_game) ==
    IF state_of_game = Ongoing
    THEN UNION {RolloutLoop(make_move(rollout_state, mv),
                            game_state(make_move(rollout_state, mv))) :
                   mv \in MoveSet(legal_moves(rollout_state))}
    ELSE {[game_state |-> state_of_game, rollout_state |-> rollout_state]}

\* a rollout that hands back the result of the final position as it is
RolloutResult_NotReversed(state, end) == end.game_state[2]

\* what rollout(state) returns when its loop ends on `end'
RolloutResult(state, end) ==
    IF active_player(end.rollout_state) = active_player(state)
    THEN GameResult_reverse(end.game_state[2])
    ELSE end.game_state[2]

\* the results rollout(state) may return, over the random moves
rollout(state) ==
    {RolloutResult(state, end) : end \in RolloutLoop(state, game_state(state))}

RECURSIVE back_propagate(_, _, _)
\* the result handed up as it is
back_propagate_SameResult(nodes, node, result) ==
    IF nodes[node].parent = None
    THEN [nodes EXCEPT ![node].simulations = @ + 1,
                       ![node].wins2 = @ + (CASE result = "Win" -> 2
                                              [] result = "Draw" -> 1
                                              [] OTHER -> 0)]
    ELSE back_propagate(
             [nodes EXCEPT ![node].simulations = @ + 1,
                           ![node].wins2 = @ + (CASE result = "Win" -> 2
                                                  [] result = "Draw" -> 1
                                                  [] OTHER -> 0)],
             nodes[node].parent[1], result)

back_propagate(nodes, node, result) ==
    IF nodes[node].parent = None
    THEN [nodes EXCEPT ![node].simulations = @ + 1,
                       ![node].wins2 = @ + (CASE result = "Win" -> 2
                                              [] result = "Draw" -> 1
                                              [] OTHER -> 0)]
    ELSE back_propagate(
             [nodes EXCEPT ![node].simulations = @ + 1,
                           ![node].wins2 = @ + (CASE result = "Win" -> 2
                                                  [] result = "Draw" -> 1
                                                  [] OTHER -> 0)],
             nodes[node].parent[1], GameResult_reverse(result))

\* the first child the iteration hands out
best_move_FirstSeen(nodes) ==
    {order[1] : order \in IterationOrders(DOMAIN nodes[1].children)}

\* the moves best_move may return: one per iteration order of the root's
\* child map
best_move(nodes) ==
    {FoldMax(order,
             [mv \in DOMAIN nodes[1].children |->
                 nodes[nodes[1].children[mv]].simulations],
             1, <<None, None>>)[2][1] :
        order \in IterationOrders(DOMAIN nodes[1].children)}

(***************************************************************************)
(* A search: MCTS::new on a position, then simulate_once MaxSimulations    *)
(* times over and best_move at any time after the first (the montecarlo    *)
(* command of chess-cli/src/main.rs).                                      *)
(***************************************************************************)
\* k7/2K5/8/8/8/8/8/8 b - - 49: one legal move, into a 50-move draw
LoneMovePosition ==
    GameStateNew("Black",
                 SideStateOf([EmptyPieces EXCEPT !.King = {At(2, 6)}],
                             FALSE, FALSE),
                 SideStateOf([EmptyPieces EXCEPT !.King = {At(0, 7)}],
                             FALSE, FALSE),
                 None, 49)

\* k7/8/2K5/8/8/8/8/8 b - - 49: two legal moves, both into a 50-move draw
TwoMovePosition ==
    GameStateNew("Black",
                 SideStateOf([EmptyPieces EXCEPT !.King = {At(2, 5)}],
                             FALSE, FALSE),
                 SideStateOf([EmptyPieces EXCEPT !.King = {At(0, 7)}],
                             FALSE, FALSE),
                 None, 49)

\* k7/1q6/K7/8/8/8/8/1Q6 w - - 49: Ka6-a5 into a 50-move draw, or Qb1xb7
\* mate
MateInOnePosition ==
    GameStateNew("White",
                 SideStateOf([EmptyPieces EXCEPT !.King = {At(0, 5)},
                                                 !.Queen = {At(1, 0)}],
                             FALSE, FALSE),
                 SideStateOf([EmptyPieces EXCEPT !.King = {At(0, 7)},
                                                 !.Queen = {At(1, 6)}],
                             FALSE, FALSE),
                 None, 49)

\* k7/8/K1Q5/8/1q6/8/8/8 b - - 48: ...Ka8-b8, or ...Qb4-b7+ which Qc6xb7
\* mates
CrossCheckPosition ==
    GameStateNew("Black",
                 SideStateOf([EmptyPieces EXCEPT !.King = {At(0, 5)},
                                                 !.Queen = {At(2, 5)}],
                             FALSE, FALSE),
                 SideStateOf([EmptyPieces EXCEPT !.King = {At(0, 7)},
                                                 !.Queen = {At(1, 3)}],
                             FALSE, FALSE),
                 None, 48)

InitMCTS ==
    /\ mcts \in {MCTS_new(p) : p \in {LoneMovePosition, TwoMovePosition,
                                      MateInOnePosition, CrossCheckPosition}}
    /\ tt = None
    /\ lastOp = NoOp
    /\ inserted = [k \in TTKeys |-> {}]
    /\ ttOps = 0
    /\ game = None
    /\ plies = 0
    /\ lastMove = NoMove
    /\ search = None
    /\ oracle = None

\* a simulate_once that leaves out back_propagate
SimulateOnce_NoBackPropagate ==
    /\ mcts.calls < MaxSimulations
    /\ \E t \in traverse(mcts.nodes, 1, mcts.initial_state) :
          \E end \in RolloutLoop(t.state, game_state(t.state)) :
              /\ mcts' = [mcts EXCEPT
                             !.nodes = t.nodes,
                             !.calls = @ + 1,
                             !.leaf = Some(t.leaf),
                             !.result = Some(RolloutResult(t.state, end)),
                             !.best = None]
              /\ game' = end.rollout_state
    /\ UNCHANGED <<tt, lastOp, inserted, ttOps, plies, lastMove, search, oracle>>

\* simulate_once: traverse, rollout, back_propagate.  leaf and result are
\* what the call handed to back_propagate; best is what best_move returned,
\* if it was called since; game is the position the rollout ended on
SimulateOnce ==
    /\ mcts.calls < MaxSimulations
    /\ \E t \in traverse(mcts.nodes, 1, mcts.initial_state) :
          \E end \in RolloutLoop(t.state, game_state(t.state)) :
              /\ mcts' = [mcts EXCEPT
                             !.nodes = back_propagate(t.nodes, t.leaf,
                                                      RolloutResult(t.state, end)),
                             !.calls = @ + 1,
                             !.leaf = Some(t.leaf),
                             !.result = Some(RolloutResult(t.state, end)),
                             !.best = None]
              /\ game' = end.rollout_state
    /\ UNCHANGED <<tt, lastOp, inserted, ttOps, plies, lastMove, search, oracle>>

\* best_move, which unwraps None when the root has no child
BestMove ==
    /\ DOMAIN mcts.nodes[1].children /= {}
    /\ \E mv \in best_move(mcts.nodes) : mcts' = [mcts EXCEPT !.best = Some(mv)]
    /\ UNCHANGED <<tt, lastOp, inserted, ttOps, game, plies, lastMove, search,
                   oracle>>

NextMCTS == SimulateOnce \/ BestMove

SpecMCTS == InitMCTS /\ [][NextMCTS]_vars

(***************************************************************************)
(* Claims about the Monte-Carlo tree search.                               *)
(***************************************************************************)
\* the nodes from n up to the root, n first
RECURSIVE PathToRoot(_, _)
PathToRoot(nodes, n) ==
    IF nodes[n].parent = None THEN <<n>>
    ELSE <<n>> \o PathToRoot(nodes, nodes[n].parent[1])

\* what a result counts for, in halves of a win
Halves(result) == IF result = "Win" THEN 2 ELSE IF result = "Draw" THEN 1 ELSE 0

\* the result as seen k steps above the leaf
SeenFrom(result, k) ==
    IF k % 2 = 0 \/ result = "Draw" THEN result
    ELSE IF result = "Win" THEN "Loss" ELSE "Win"

\* the node n of the tree before the step, a node made in the step counting
\* as it was made
NodeBefore(n) ==
    IF n <= Len(mcts.nodes) THEN mcts.nodes[n]
    ELSE [wins2 |-> 0, simulations |-> 0]

\* C18: back_propagate(leaf, result) adds 1 to simulations of exactly the
\* nodes on the path from the leaf up to the root and of no other node, and
\* adds to wins 1 for a Win, 0.5 for a Draw and 0 for a Loss, the result
\* being reversed (Win <-> Loss, Draw unchanged) at each step from a node to
\* its parent.
C18_BackPropagateAlongPath ==
    [][mcts'.calls = mcts.calls + 1 =>
          LET after == mcts'.nodes
              path == PathToRoot(after, mcts'.leaf[1])
              result == mcts'.result[1]
          IN /\ path[Len(path)] = 1
             /\ \A k \in DOMAIN path :
                   /\ after[path[k]].simulations
                         = NodeBefore(path[k]).simulations + 1
                   /\ after[path[k]].wins2
                         = NodeBefore(path[k]).wins2
                              + Halves(SeenFrom(result, k - 1))
             /\ \A n \in DOMAIN after :
                   (\A k \in DOMAIN path : path[k] /= n)
                      => /\ after[n].simulations = NodeBefore(n).simulations
                         /\ after[n].wins2 = NodeBefore(n).wins2]_vars

\* k7/8/K1Q5/8/1q6/8/8/8 b after three calls: ...Qb4-b7+ (rolled out to a
\* draw), ...Ka8-b8 (a draw), then Qc6xb7 mate under ...Qb4-b7+: a Win for
\* the new node, a Loss for its parent, a Win for the root
C18_Witness ==
    /\ mcts /= None
    /\ mcts.initial_state = CrossCheckPosition
    /\ mcts.calls = 3
    /\ mcts.leaf = Some(4)
    /\ mcts.result = Some("Win")
    /\ Len(mcts.nodes) = 4
    /\ mcts.nodes[4].parent = Some(2)
    /\ mcts.nodes[4].wins2 = 2 /\ mcts.nodes[4].simulations = 1
    /\ mcts.nodes[2].wins2 = 1 /\ mcts.nodes[2].simulations = 2
    /\ mcts.nodes[3].wins2 = 1 /\ mcts.nodes[3].simulations = 1
    /\ mcts.nodes[1].wins2 = 4 /\ mcts.nodes[1].simulations = 3

\* the simulations of the root child reached by mv
RootChildSimulations(mv) ==
    mcts.nodes[mcts.nodes[1].children[mv]].simulations

\* C19: after at least one simulate_once on a root position with legal
\* moves, best_move returns the move of a root child whose simulation count
\* is maximal among all root children.
C19_BestMoveHasMostSimulations ==
    (mcts /= None /\ mcts.best /= None)
        => /\ mcts.calls >= 1
           /\ mcts.best[1] \in DOMAIN mcts.nodes[1].children
           /\ \A mv \in DOMAIN mcts.nodes[1].children :
                  RootChildSimulations(mcts.best[1]) >= RootChildSimulations(mv)

\* k7/1q6/K7/8/8/8/8/1Q6 w after three calls: Qb1xb7 mate was simulated
\* twice, Ka6-a5 once
C19_Witness ==
    /\ mcts /= None
    /\ mcts.initial_state = MateInOnePosition
    /\ mcts.calls = 3
    /\ mcts.best = Some(Normal("Queen", At(1, 0), At(1, 6)))
    /\ RootChildSimulations(Normal("Queen", At(1, 0), At(1, 6))) = 2
    /\ RootChildSimulations(Normal("King", At(0, 5), At(0, 4))) = 1

\* the position of node n: the moves from the root down to n, made on the
\* initial position
RECURSIVE PositionOf(_, _, _)
PositionOf(initial_state, nodes, n) ==
    IF nodes[n].parent = None THEN initial_state
    ELSE make_move(PositionOf(initial_state, nodes, nodes[n].parent[1]),
                   nodes[n].mv[1])

\* C20: in simulate_once, selection from the root stops as soon as one new
\* child has been created for a previously unexplored legal move, or as soon
\* as the current node's game is terminal (checkmate, stalemate or 50-move
\* draw): every node it went through above the leaf is an ongoing game, a
\* call that creates no node ends on a terminal one, and a call adds at most
\* one node.  traverse never asks for the game state: it goes on below a
\* position that is drawn by the 50-move clock.
C20_SelectionStopsAtTerminal ==
    [][mcts'.calls = mcts.calls + 1 =>
          LET path == PathToRoot(mcts'.nodes, mcts'.leaf[1])
          IN /\ Len(mcts'.nodes) <= Len(mcts.nodes) + 1
             /\ \A k \in 2 .. Len(path) :
                   game_state(PositionOf(mcts.initial_state, mcts'.nodes,
                                         path[k])) = Ongoing
             /\ Len(mcts'.nodes) = Len(mcts.nodes)
                   => game_state(PositionOf(mcts.initial_state, mcts'.nodes,
                                            path[1])) /= Ongoing]_vars

\* is the side to move in `state' checkmated
Checkmated(state) == Len(legal_moves(state)) = 0 /\ is_in_check(state)

\* the position of the leaf the last simulate_once rolled out from
LeafState == PositionOf(mcts.initial_state, mcts.nodes, mcts.leaf[1])

\* C27: the result rollout returns for the leaf is that of the player who
\* moved into the leaf: Win exactly when the rollout ended on a checkmate of
\* the player to move at the leaf, Loss exactly when it ended on a checkmate
\* of the other player, Draw when it ended on a stalemate or a 50-move draw,
\* however many moves the rollout made.
C27_RolloutResultIsOfThePlayerWhoMoved ==
    (mcts /= None /\ mcts.calls >= 1) =>
        /\ mcts.result = Some("Win") <=>
              /\ Checkmated(game)
              /\ game.active_colour = LeafState.active_colour
        /\ mcts.result = Some("Loss") <=>
              /\ Checkmated(game)
              /\ game.active_colour /= LeafState.active_colour
        /\ mcts.result = Some("Draw") <=>
              /\ ~Checkmated(game)
              /\ \/ Len(legal_moves(game)) = 0
                 \/ game.fifty_move_clock >= 50

\* a rollout of one move that ended on a checkmate of the player who did not
\* have the move at the leaf
C27_Witness ==
    /\ mcts /= None
    /\ mcts.calls >= 1
    /\ mcts.result = Some("Loss")
    /\ Checkmated(game)
    /\ game /= LeafState
    /\ game.active_colour /= LeafState.active_colour

\* a rollout of no move: the leaf is itself a checkmate
C27_WitnessNoMove ==
    /\ mcts /= None
    /\ mcts.calls >= 1
    /\ mcts.result = Some("Win")
    /\ game = LeafState

\* the simulations of the nodes of `set', added up
RECURSIVE SumSimulations(_, _)
SumSimulations(nodes, set) ==
    IF set = {} THEN 0
    ELSE LET n == CHOOSE x \in set : TRUE
         IN nodes[n].simulations + SumSimulations(nodes, set \ {n})

\* the nodes the child map of node n holds
ChildrenOf(nodes, n) ==
    {nodes[n].children[mv] : mv \in DOMAIN nodes[n].children}

\* C30: after n calls of simulate_once on a root position with legal moves,
\* the root has n simulations, which is the sum over its children; every
\* other node has at least one simulation and at least as many as its
\* children together; the wins of a node lie between 0 and its simulations;
\* and every node but the root is held by its parent's child map under its
\* own move, a parent being older than its child.
C30_TreeCounts ==
    (mcts /= None /\ legal_moves(mcts.initial_state) /= << >>) =>
        /\ mcts.nodes[1].simulations = mcts.calls
        /\ mcts.nodes[1].simulations
              = SumSimulations(mcts.nodes, ChildrenOf(mcts.nodes, 1))
        /\ mcts.nodes[1].parent = None
        /\ \A n \in DOMAIN mcts.nodes :
              /\ 0 <= mcts.nodes[n].wins2
              /\ mcts.nodes[n].wins2 <= 2 * mcts.nodes[n].simulations
        /\ \A n \in DOMAIN mcts.nodes \ {1} :
              /\ mcts.nodes[n].simulations >= 1
              /\ mcts.nodes[n].simulations
                    >= SumSimulations(mcts.nodes, ChildrenOf(mcts.nodes, n))
              /\ mcts.nodes[n].parent /= None
              /\ mcts.nodes[n].parent[1] < n
              /\ mcts.nodes[n].mv /= None
              /\ mcts.nodes[n].mv[1]
                    \in DOMAIN mcts.nodes[mcts.nodes[n].parent[1]].children
              /\ mcts.nodes[mcts.nodes[n].parent[1]].children[mcts.nodes[n].mv[1]]
                    = n

\* three calls have built a tree with a node below a child of the root, the
\* child having been gone through twice
C30_Witness ==
    /\ mcts /= None
    /\ mcts.calls = 3
    /\ \E n \in DOMAIN mcts.nodes :
          /\ mcts.nodes[n].parent /= None
          /\ mcts.nodes[n].parent[1] /= 1
          /\ mcts.nodes[n].simulations = 1
          /\ mcts.nodes[mcts.nodes[n].parent[1]].simulations = 2

(***************************************************************************)
(* A rollout on its own (montecarlo.rs:172-182): game is rollout_state,    *)
(* lastOp the last call of game_state() and what it returned, which is the *)
(* local variable game_state, plies the number of moves made, search the   *)
(* panic of the loop, if any.                                              *)
(***************************************************************************)
MinRolloutClock == 47

\* 4k3/8/8/8/8/8/8/4K3 w - - with the clock at MinRolloutClock
LateBareKingsPosition ==
    GameStateNew("White",
                 SideStateOf([EmptyPieces EXCEPT !.King = {At(4, 0)}],
                             FALSE, FALSE),
                 SideStateOf([EmptyPieces EXCEPT !.King = {At(4, 7)}],
                             FALSE, FALSE),
                 None, MinRolloutClock)

\* game_state = rollout_state.game_state()
GameStateCall(rollout_state) ==
    [op |-> "game_state", zh |-> {}, data |-> None,
     result |-> Some(game_state(rollout_state))]

InitRollout ==
    /\ game \in {LateBareKingsPosition, LoneMovePosition, TwoMovePosition,
                  MateInOnePosition, CrossCheckPosition}
    /\ plies = 0
    /\ lastMove = NoMove
    /\ search = None
    /\ tt = None
    /\ lastOp = GameStateCall(game)
    /\ inserted = [k \in TTKeys |-> {}]
    /\ ttOps = 0
    /\ oracle = None
    /\ mcts = None

\* one turn of the while loop: choose() hands out one of the legal moves, or
\* None, which unwrap() turns into a panic, when there is none
RolloutStep ==
    /\ search = None
    /\ lastOp.result[1] = Ongoing
    /\ IF legal_moves(game) = << >>
       THEN /\ search' = Some("unwrap")
            /\ UNCHANGED <<game, lastMove, plies, lastOp>>
       ELSE /\ \E mv \in MoveSet(legal_moves(game)) :
                  \E next \in {make_move(game, mv)} :
                      /\ game' = next
                      /\ lastMove' = mv
                      /\ lastOp' = GameStateCall(next)
            /\ plies' = plies + 1
            /\ UNCHANGED search
    /\ UNCHANGED <<tt, inserted, ttOps, oracle, mcts>>

NextRollout == RolloutStep

\* a turn of the loop that makes a move: the loop has not panicked, its
\* condition game_state == Ongoing holds, and one more move is made
LoopTurn ==
    /\ search = None
    /\ lastOp.result[1] = Ongoing
    /\ plies' = plies + 1
    /\ search' = search

\* the loop takes its turns for as long as its condition holds
SpecRollout ==
    InitRollout /\ [][NextRollout]_vars /\ WF_<<plies, search>>(LoopTurn)

\* C28: a rollout ends: its moves never fail for want of a legal move while
\* the game is Ongoing, and it reaches a position whose game state is
\* Finished (checkmate, stalemate, or a 50-move clock of 50 or more).
C28_RolloutTerminates ==
    /\ [](search = None)
    /\ <>(lastOp.result[1] /= Ongoing /\ game_state(game) /= Ongoing)

\* a rollout that made three moves and ended on the 50-move rule
C28_Witness ==
    /\ game /= None
    /\ plies = 3
    /\ search = None
    /\ lastOp.op = "game_state"
    /\ lastOp.result = Some(Finished("Draw"))
    /\ game.fifty_move_clock = 50
    /\ Len(legal_moves(game)) > 0

(***************************************************************************)
(* The size of a table and the slot of a key (chess-lib/src/tt.rs:60-75,   *)
(* 144-146): a table is built for some budget and a key is then indexed.   *)
(***************************************************************************)
MaxTableBytes == 144

\* keys with their lowest, their highest or both of these bits set
SizeKeys == {{}, {0}, {63}, {0, 63}}

\* w >> s for a 64-bit w and s < 64, as a word
ShiftedBits(w, s) == {i - s : i \in {j \in w : j >= s}}

\* zh.0 >> self.shift as a build computes it: shift is a u32, and a shift of
\* a u64 by 64 bits panics with `attempt to shift right with overflow' in a
\* debug build and shifts by shift % 64 in a release build
IndexOutcomes(t, zh) ==
    IF t.shift < 64
    THEN {[panic |-> FALSE, word |-> ShiftedBits(zh, t.shift)]}
    ELSE {[panic |-> TRUE, word |-> {}],
          [panic |-> FALSE, word |-> ShiftedBits(zh, t.shift % 64)]}

InitSize ==
    /\ tt = None
    /\ lastOp = NoOp
    /\ inserted = [k \in TTKeys |-> {}]
    /\ ttOps = 0
    /\ game = None
    /\ plies = 0
    /\ lastMove = None
    /\ search = None
    /\ oracle = None
    /\ mcts = None

NewTable(max_bytes, collision_policy) ==
    /\ lastOp.op = "none"
    /\ tt' = TranspositionTableNew(max_bytes, collision_policy)
    /\ lastOp' = [op |-> "new", zh |-> {}, data |-> Some(max_bytes),
                  result |-> None]
    /\ UNCHANGED <<inserted, ttOps, game, plies, lastMove, search, oracle,
                   mcts>>

IndexKey(zh) ==
    /\ lastOp.op = "new"
    /\ \E out \in IndexOutcomes(tt, zh) :
          lastOp' = [op |-> "index", zh |-> zh, data |-> lastOp.data,
                     result |-> Some(out)]
    /\ UNCHANGED <<tt, inserted, ttOps, game, plies, lastMove, search,
                   oracle, mcts>>

NextSize ==
    \/ \E b \in 0 .. MaxTableBytes, p \in Policies : NewTable(b, p)
    \/ \E zh \in SizeKeys : IndexKey(zh)

SpecSize == InitSize /\ [][NextSize]_vars

(***************************************************************************)
(* Claims about the size of a table.                                       *)
(***************************************************************************)
Built == lastOp.op \in {"new", "index"}
Quotient == lastOp.data[1] \div EntrySize
Entries == Cardinality(DOMAIN tt.table)
IsPowerOfTwo(n) == \E k \in 0 .. 30 : n = Pow2(k)

\* C21: a table built for max_bytes has as many entries as the largest power
\* of two that does not exceed max_bytes / size_of(entry); a quotient that is
\* a power of two is itself the number of entries.
C21_EntriesRoundedDownToPowerOfTwo ==
    (Built /\ Quotient >= 1) =>
        /\ IsPowerOfTwo(Entries)
        /\ Entries <= Quotient
        /\ 2 * Entries > Quotient

\* C29: the slot key >> shift of every key is below the number of entries of
\* the table, whatever the budget, and the shift is below 64.
C29_IndexWithinTable ==
    lastOp.op = "index" =>
        /\ tt.shift < 64
        /\ ~lastOp.result[1].panic
        /\ Entries >= 1
        /\ \A i \in lastOp.result[1].word : i <= 30 /\ Pow2(i) < Entries

(***************************************************************************)
(* Claims about the constants of the hasher (chess-lib/src/zobrist.rs).    *)
(***************************************************************************)
\* a hashed fact: a piece of a colour on a square, the side to move, a
\* castling right, or the file of the en passant square
Fact(kind, colour, piece, n) ==
    [kind |-> kind, colour |-> colour, piece |-> piece, coord |-> n]

HashedFacts ==
    {Fact("piece", c, p, n) : c \in {"White", "Black"}, p \in PieceKinds,
                              n \in 0 .. 63}
      \cup {Fact("black_to_move", "Black", "King", 0)}
      \cup {Fact(k, "White", "King", 0) :
              k \in {"white_kingside", "white_queenside"}}
      \cup {Fact(k, "Black", "King", 0) :
              k \in {"black_kingside", "black_queenside"}}
      \cup {Fact("en_passant", "White", "Pawn", n) : n \in 0 .. 7}

\* the index of numbers that the toggle of a fact XORs in
FactIndex(f) ==
    CASE f.kind = "piece" -> piece_index(f.colour, f.piece, f.coord)
      [] f.kind = "black_to_move" -> BLACK_TO_MOVE
      [] f.kind = "white_kingside" -> WHITE_KINGSIDE
      [] f.kind = "white_queenside" -> WHITE_QUEENSIDE
      [] f.kind = "black_kingside" -> BLACK_KINGSIDE
      [] f.kind = "black_queenside" -> BLACK_QUEENSIDE
      [] f.kind = "en_passant" -> EN_PASSANT + BitCoordFile(f.coord)

\* the fact f holds of a position, so that hash XORs its number in
HoldsIn(f, state) ==
    CASE f.kind = "piece" ->
            f.coord \in SideOf(state, f.colour).pieces[f.piece]
      [] f.kind = "black_to_move" -> state.active_colour = "Black"
      [] f.kind = "white_kingside" -> state.white.can_castle_kingside
      [] f.kind = "white_queenside" -> state.white.can_castle_queenside
      [] f.kind = "black_kingside" -> state.black.can_castle_kingside
      [] f.kind = "black_queenside" -> state.black.can_castle_queenside
      [] f.kind = "en_passant" ->
            /\ state.en_passant /= None
            /\ BitCoordFile(state.en_passant[1]) = BitCoordFile(f.coord)

\* C22: the 781 hashed facts (768 pieces on squares, black to move, four
\* castling rights, eight en passant files) have pairwise different indices,
\* all within 0 .. 780; in particular the facts that hold of the position
\* being played are hashed with pairwise different constants.
C22_FactsHaveDistinctIndices ==
    LET held == {f \in HashedFacts : HoldsIn(f, game)}
    IN /\ Cardinality({FactIndex(f) : f \in held}) = Cardinality(held)
       /\ Cardinality(HashedFacts) = 781
       /\ \A f \in HashedFacts : FactIndex(f) \in 0 .. 780
       /\ Cardinality({FactIndex(f) : f \in HashedFacts}) = 781

====
